---- MODULE Spec2Model ----
(***************************************************************************)
(* A model of E4P: the streaming authenticated-container engine            *)
(* (app/crypto/stream.py, aead.py, kdf.py, container.py) and the job       *)
(* pipeline (app/services/tasks.py, app/routes/encrypt.py,                  *)
(* app/services/storage.py).                                                *)
(*                                                                         *)
(* Bytes are symbolic.  A plaintext byte is a number.  The AEAD primitives *)
(* of the libraries are modelled as ideal ones: the bytes produced by      *)
(* encrypting p under (key, nonce) are values that nothing else produces,  *)
(* and decryption accepts a byte string iff it is exactly the encryption   *)
(* of some p under the same (key, nonce).  The KDF is modelled as an       *)
(* injective function of (password, salt, configured parameters).          *)
(***************************************************************************)
EXTENDS Integers, Sequences, FiniteSets, TLC

(***************************************************************************)
(* Bounds of the model.                                                    *)
(***************************************************************************)
\* StreamProcessor.chunk_size (a constructor parameter; 1 MiB by default).
ChunkSize == 44
\* How many distinct values os.urandom may return for the base nonce.
MaxNonceId == 2
\* settings.max_file_size_mb * 1024 * 1024 bytes (2 GiB by default), scaled.
MaxFileSizeBytes == 200
\* How many jobs are submitted, and how many files a job has at most.
MaxTasks == 3
MaxFiles == 2
\* How many files are uploaded in all.
MaxUploads == 4
\* How many times in all the environment interferes: a cancel request that
\* is accepted, or an I/O error raised inside encrypt_file.
MaxFaults == 2

(***************************************************************************)
(* Program constants.                                                      *)
(***************************************************************************)
NonceLenAES == 12
NonceLenXChaCha == 24
\* The authentication tag of both library primitives (AESGCM, SecretBox).
TagLen == 16
SaltLen == 32
\* settings.max_concurrency, the K of TaskManager(settings.max_concurrency).
MaxConcurrency == 2
Argon2MemoryMb == 256
Argon2TimeCost == 3
Argon2Parallelism == 2
MinMemoryKb == 1024
\* decrypt_file and get_file_info read this many bytes to find the header.
HeaderReadSize == 8192

(***************************************************************************)
(* app/config.py: the settings object.  Its Argon2 fields are read at each *)
(* call of derive_key and of create_header; an operator may start the      *)
(* process with other values than the ones a stored container was written  *)
(* under.                                                                  *)
(***************************************************************************)
VARIABLE settings

\* config.py lines 19-21, the defaults.
DefaultSettings ==
    [argon2_memory_mb |-> Argon2MemoryMb, argon2_time_cost |-> Argon2TimeCost,
     argon2_parallelism |-> Argon2Parallelism]

\* The configurations an operator chooses among; every one is valid for
\* Argon2id (memory of at least 1024 KB, at least one pass and one lane).
SettingsChoices ==
    [argon2_memory_mb : {Argon2MemoryMb \div 2, Argon2MemoryMb},
     argon2_time_cost : {Argon2TimeCost - 1, Argon2TimeCost},
     argon2_parallelism : {Argon2Parallelism - 1, Argon2Parallelism}]

AES == "AES-256-GCM"
XCHACHA == "XCHACHA20-POLY1305"
Algorithms == {AES, XCHACHA}

Min(a, b) == IF a < b THEN a ELSE b

(***************************************************************************)
(* Inputs.                                                                 *)
(***************************************************************************)
\* Plaintext lengths: empty, tiny, around the largest length whose record
\* still fits one read of ChunkSize bytes (per algorithm), around the chunk
\* size, and around two chunk sizes.
PlainLens ==
    {0, 1,
     ChunkSize - (NonceLenXChaCha + TagLen), ChunkSize - (NonceLenXChaCha + TagLen) + 1,
     ChunkSize - TagLen, ChunkSize - TagLen + 1,
     ChunkSize - 1, ChunkSize, ChunkSize + 1,
     2 * ChunkSize, 2 * ChunkSize + 1, 3 * ChunkSize}

\* The plaintext of length n: byte i has value i (mod 256).
PlainOf(n) == [i \in 1..n |-> i % 256]

EncPasswords == {"pwA"}
DecPasswords == {"pwA", "pwB", ""}

(***************************************************************************)
(* Bytes and text.  A str is a sequence of characters, a bytes object a     *)
(* sequence of integers 0..255 or, for UTF-8 text, of its characters.       *)
(***************************************************************************)
\* os.urandom(n) as the model has it: the value [len |-> n, id |-> k] stands
\* for the n bytes k, 0, ..., 0.
BytesOf(v) == [j \in 1..v.len |-> IF j = 1 THEN v.id ELSE 0]
ValueOf(bytes) == [len |-> Len(bytes), id |-> IF bytes = <<>> THEN 0 ELSE bytes[1]]

\* The base64 alphabet of RFC 4648, in index order.
B64Alphabet ==
    <<"A", "B", "C", "D", "E", "F", "G", "H", "I", "J", "K", "L", "M", "N", "O", "P",
      "Q", "R", "S", "T", "U", "V", "W", "X", "Y", "Z", "a", "b", "c", "d", "e", "f",
      "g", "h", "i", "j", "k", "l", "m", "n", "o", "p", "q", "r", "s", "t", "u", "v",
      "w", "x", "y", "z", "0", "1", "2", "3", "4", "5", "6", "7", "8", "9", "+", "/">>
B64Pad == "="
B64CharSet == {B64Alphabet[k] : k \in DOMAIN B64Alphabet}
B64IndexOf == [ch \in B64CharSet |-> (CHOOSE k \in DOMAIN B64Alphabet : B64Alphabet[k] = ch) - 1]
IsB64Char(ch) == ch \in B64CharSet
B64Index(ch) == B64IndexOf[ch]
B64Char(n) == B64Alphabet[n + 1]

\* base64.b64encode(bytes).decode('utf-8').
RECURSIVE b64encode(_)
b64encode(bytes) ==
    IF bytes = <<>> THEN <<>>
    ELSE IF Len(bytes) = 1
    THEN <<B64Char(bytes[1] \div 4), B64Char((bytes[1] % 4) * 16), B64Pad, B64Pad>>
    ELSE IF Len(bytes) = 2
    THEN <<B64Char(bytes[1] \div 4),
           B64Char((bytes[1] % 4) * 16 + bytes[2] \div 16),
           B64Char((bytes[2] % 16) * 4), B64Pad>>
    ELSE <<B64Char(bytes[1] \div 4),
           B64Char((bytes[1] % 4) * 16 + bytes[2] \div 16),
           B64Char((bytes[2] % 16) * 4 + bytes[3] \div 64),
           B64Char(bytes[3] % 64)>>
         \o b64encode(SubSeq(bytes, 4, Len(bytes)))

\* The first index from i on whose element is in the set, Len(seq) + 1 when
\* there is none.
FirstIn(seq, i, set) ==
    LET found == {j \in i..Len(seq) : seq[j] \in set}
    IN  IF found = {} THEN Len(seq) + 1
        ELSE CHOOSE j \in found : \A k \in found : j <= k
\* The first index from i on whose element is not in the set.
FirstNotIn(seq, i, set) ==
    LET found == {j \in i..Len(seq) : seq[j] \notin set}
    IN  IF found = {} THEN Len(seq) + 1
        ELSE CHOOSE j \in found : \A k \in found : j <= k

\* binascii.a2b_base64 in its default, non-strict mode, the scan: characters
\* outside the alphabet are skipped; a padding character that completes a
\* quad ends the input; data characters left over in an incomplete quad are
\* an error (binascii.Error).  The result is the 6-bit values read.  A run
\* of alphabet characters is taken in one step.
RECURSIVE B64Scan(_, _, _, _, _)
B64Scan(text, i, quad_pos, pads, sextets) ==
    IF i > Len(text) THEN [ok |-> quad_pos = 0, sextets |-> sextets]
    ELSE IF text[i] = B64Pad
    THEN IF quad_pos >= 2 /\ quad_pos + pads + 1 >= 4
         THEN [ok |-> TRUE, sextets |-> sextets]
         ELSE B64Scan(text, i + 1, quad_pos,
                      IF quad_pos >= 2 THEN pads + 1 ELSE pads, sextets)
    ELSE IF ~IsB64Char(text[i])
    THEN B64Scan(text, i + 1, quad_pos, pads, sextets)
    ELSE LET j == FirstNotIn(text, i, B64CharSet)
         IN  B64Scan(text, j, (quad_pos + (j - i)) % 4, 0,
                     sextets \o [k \in 1..(j - i) |-> B64Index(text[i + k - 1])])

\* The bytes that 6-bit values stand for.
RECURSIVE B64Bytes(_)
B64Bytes(sextets) ==
    IF Len(sextets) < 2 THEN <<>>
    ELSE IF Len(sextets) = 2
    THEN <<sextets[1] * 4 + sextets[2] \div 16>>
    ELSE IF Len(sextets) = 3
    THEN <<sextets[1] * 4 + sextets[2] \div 16,
           (sextets[2] % 16) * 16 + sextets[3] \div 4>>
    ELSE <<sextets[1] * 4 + sextets[2] \div 16,
           (sextets[2] % 16) * 16 + sextets[3] \div 4,
           (sextets[3] % 4) * 64 + sextets[4]>>
         \o B64Bytes(SubSeq(sextets, 5, Len(sextets)))

\* base64.b64decode(text): the bytes, or not ok when binascii.Error is raised.
b64decode(text) ==
    LET scan == B64Scan(text, 1, 0, 0, <<>>)
    IN  IF scan.ok THEN [ok |-> TRUE, data |-> B64Bytes(scan.sextets)]
        ELSE [ok |-> FALSE, data |-> <<>>]

\* The concatenation of a sequence of sequences.
RECURSIVE Flatten(_)
Flatten(seqs) ==
    IF seqs = <<>> THEN <<>>
    ELSE IF Len(seqs) = 1 THEN seqs[1]
    ELSE LET mid == Len(seqs) \div 2
         IN  Flatten(SubSeq(seqs, 1, mid)) \o Flatten(SubSeq(seqs, mid + 1, Len(seqs)))

\* The characters of the strs the program spells out.
Chars(s) ==
    CASE
           s = "AES-256-GCM" -> <<"A", "E", "S", "-", "2", "5", "6", "-", "G", "C", "M">>
        [] s = "XCHACHA20-POLY1305" -> <<"X", "C", "H", "A", "C", "H", "A", "2", "0", "-", "P", "O", "L", "Y", "1", "3", "0", "5">>
        [] s = "argon2id" -> <<"a", "r", "g", "o", "n", "2", "i", "d">>
        [] s = "alg" -> <<"a", "l", "g">>
        [] s = "kdf" -> <<"k", "d", "f">>
        [] s = "kdf_params" -> <<"k", "d", "f", "_", "p", "a", "r", "a", "m", "s">>
        [] s = "salt" -> <<"s", "a", "l", "t">>
        [] s = "nonce" -> <<"n", "o", "n", "c", "e">>
        [] s = "orig_name" -> <<"o", "r", "i", "g", "_", "n", "a", "m", "e">>
        [] s = "orig_size" -> <<"o", "r", "i", "g", "_", "s", "i", "z", "e">>
        [] s = "ts" -> <<"t", "s">>
        [] s = "m" -> <<"m">>
        [] s = "t" -> <<"t">>
        [] s = "p" -> <<"p">>
        [] s = "input" -> <<"i", "n", "p", "u", "t">>
        [] s = "DES" -> <<"D", "E", "S">>
        [] s = "scrypt" -> <<"s", "c", "r", "y", "p", "t">>
        [] s = "2024-01-01T00:00:00" -> <<"2", "0", "2", "4", "-", "0", "1", "-", "0", "1", "T", "0", "0", ":", "0", "0", ":", "0", "0">>
        [] OTHER -> <<>>

\* The printable ASCII characters, in code order from 32 (code 96, the grave
\* accent, by name).
Ascii ==
    <<" ", "!", "\"", "#", "$", "%", "&", "'", "(", ")", "*", "+", ",", "-", ".", "/",
      "0", "1", "2", "3", "4", "5", "6", "7", "8", "9", ":", ";", "<", "=", ">", "?",
      "@", "A", "B", "C", "D", "E", "F", "G", "H", "I", "J", "K", "L", "M", "N", "O",
      "P", "Q", "R", "S", "T", "U", "V", "W", "X", "Y", "Z", "[", "\\", "]", "^", "_",
      "<grave>", "a", "b", "c", "d", "e", "f", "g", "h", "i", "j", "k", "l", "m", "n", "o",
      "p", "q", "r", "s", "t", "u", "v", "w", "x", "y", "z", "{", "|", "}", "~">>
AsciiSet == {Ascii[k] : k \in DOMAIN Ascii}
AsciiCodeOf == [ch \in AsciiSet |-> (CHOOSE k \in DOMAIN Ascii : Ascii[k] = ch) + 31]
AsciiCode(ch) == AsciiCodeOf[ch]

\* str.encode('utf-8'), for printable ASCII and U+00E9.
utf8_encode(chars) ==
    IF \A i \in DOMAIN chars : chars[i] # "é"
    THEN [i \in 1..Len(chars) |-> AsciiCode(chars[i])]
    ELSE Flatten([i \in 1..Len(chars) |->
                    IF chars[i] = "é" THEN <<195, 169>> ELSE <<AsciiCode(chars[i])>>])

\* Whether the byte at index i starts a character, continues one, or is
\* neither (a byte that UTF-8 does not allow there).
Utf8Role(bytes, i) ==
    IF bytes[i] < 128 THEN "start"
    ELSE IF bytes[i] = 195 /\ i + 1 <= Len(bytes) /\ bytes[i + 1] = 169 THEN "start"
    ELSE IF bytes[i] = 169 /\ i > 1 /\ bytes[i - 1] = 195 THEN "continuation"
    ELSE "invalid"

\* bytes.decode('utf-8'): not ok stands for UnicodeDecodeError.  A control
\* character decodes to the character "<ctl>".
utf8_decode(bytes) ==
    IF \A i \in DOMAIN bytes : bytes[i] >= 32 /\ bytes[i] <= 126
    THEN [ok |-> TRUE, chars |-> [i \in 1..Len(bytes) |-> Ascii[bytes[i] - 31]]]
    ELSE IF \E i \in DOMAIN bytes : Utf8Role(bytes, i) = "invalid"
    THEN [ok |-> FALSE, chars |-> <<>>]
    ELSE [ok |-> TRUE,
          chars |-> Flatten([i \in 1..Len(bytes) |->
                       IF Utf8Role(bytes, i) = "continuation" THEN <<>>
                       ELSE IF bytes[i] = 195 THEN <<"é">>
                       ELSE IF bytes[i] >= 32 /\ bytes[i] <= 126
                       THEN <<Ascii[bytes[i] - 31]>>
                       ELSE <<"<ctl>">>])]

(***************************************************************************)
(* The json module, for the documents a header is made of: objects,         *)
(* strings and integers.  A JSON value is [type, v]: a string holds its     *)
(* characters, an object its members <<key, value>> in order.               *)
(***************************************************************************)
JStr(chars) == [type |-> "str", v |-> chars]
JInt(n) == [type |-> "int", v |-> n]
JObj(members) == [type |-> "obj", v |-> members]

Digits == <<"0", "1", "2", "3", "4", "5", "6", "7", "8", "9">>
DigitSet == {Digits[k] : k \in DOMAIN Digits}
DigitValOf == [ch \in DigitSet |-> (CHOOSE k \in DOMAIN Digits : Digits[k] = ch) - 1]
IsDigit(ch) == ch \in DigitSet
DigitVal(ch) == DigitValOf[ch]

\* str(n) for n >= 0.
RECURSIVE DecimalOf(_)
DecimalOf(n) ==
    IF n < 10 THEN <<Digits[n + 1]>> ELSE DecimalOf(n \div 10) \o <<Digits[(n % 10) + 1]>>

\* json.dumps of one character of a string, ensure_ascii=True: the quote and
\* the backslash are escaped, a non-ASCII character (the model has one,
\* U+00E9) is written as é.
EscapeChar(ch) ==
    IF ch = "\"" THEN <<"\\", "\"">>
    ELSE IF ch = "\\" THEN <<"\\", "\\">>
    ELSE IF ch = "é" THEN <<"\\", "u", "0", "0", "e", "9">>
    ELSE <<ch>>

EscapeChars(chars) == Flatten([i \in 1..Len(chars) |-> EscapeChar(chars[i])])

\* json.dumps(value, separators=(',', ':')).
RECURSIVE json_dumps(_)
RECURSIVE DumpMembers(_)
DumpMembers(members) ==
    IF members = <<>> THEN <<>>
    ELSE <<"\"">> \o EscapeChars(Head(members)[1]) \o <<"\"", ":">>
         \o json_dumps(Head(members)[2])
         \o (IF Len(members) > 1 THEN <<",">> ELSE <<>>)
         \o DumpMembers(Tail(members))

json_dumps(value) ==
    IF value.type = "str" THEN <<"\"">> \o EscapeChars(value.v) \o <<"\"">>
    ELSE IF value.type = "int"
    THEN IF value.v < 0 THEN <<"-">> \o DecimalOf(0 - value.v) ELSE DecimalOf(value.v)
    ELSE <<"{">> \o DumpMembers(value.v) \o <<"}">>

\* The scanner of json.loads.  A result is [ok, val, next]: the value read
\* and the index after it; not ok stands for json.JSONDecodeError.
NoJson == [type |-> "none", v |-> <<>>]
JFail == [ok |-> FALSE, val |-> NoJson, next |-> 0]
JOk(val, next) == [ok |-> TRUE, val |-> val, next |-> next]

\* The characters of a string, from index i just after the opening quote:
\* a run of plain characters is taken in one step, up to the closing quote,
\* a backslash or a control character.
RECURSIVE ScanString(_, _, _)
ScanString(text, i, acc) ==
    LET j == FirstIn(text, i, {"\"", "\\", "<ctl>"})
        chunk == acc \o SubSeq(text, i, j - 1)
    IN  IF j > Len(text) \/ text[j] = "<ctl>" THEN JFail
        ELSE IF text[j] = "\"" THEN JOk(JStr(chunk), j + 1)
        ELSE IF j + 1 > Len(text) THEN JFail
        ELSE IF text[j + 1] \in {"\"", "\\"}
        THEN ScanString(text, j + 2, Append(chunk, text[j + 1]))
        ELSE IF text[j + 1] = "u"
        THEN IF j + 5 <= Len(text) /\ SubSeq(text, j + 2, j + 5) = <<"0", "0", "e", "9">>
             THEN ScanString(text, j + 6, Append(chunk, "é"))
             ELSE JFail
        ELSE JFail

\* The digits of an integer from index i, acc the value so far.
RECURSIVE ScanDigits(_, _, _)
ScanDigits(text, i, acc) ==
    IF i <= Len(text) /\ IsDigit(text[i])
    THEN ScanDigits(text, i + 1, acc * 10 + DigitVal(text[i]))
    ELSE [val |-> acc, next |-> i]

\* An integer: 0, or a non-zero digit followed by digits.
ScanInt(text, i) ==
    IF i > Len(text) \/ ~IsDigit(text[i]) THEN JFail
    ELSE IF text[i] = "0" THEN JOk(JInt(0), i + 1)
    ELSE LET d == ScanDigits(text, i, 0) IN JOk(JInt(d.val), d.next)

RECURSIVE ScanValue(_, _)
RECURSIVE ScanMembers(_, _, _)
\* The members of an object from index i, which is at a key's opening quote.
ScanMembers(text, i, acc) ==
    IF i > Len(text) \/ text[i] # "\"" THEN JFail
    ELSE LET key == ScanString(text, i + 1, <<>>)
         IN  IF ~key.ok \/ key.next > Len(text) \/ text[key.next] # ":" THEN JFail
             ELSE LET value == ScanValue(text, key.next + 1)
                  IN  IF ~value.ok \/ value.next > Len(text) THEN JFail
                      ELSE LET members == Append(acc, <<key.val.v, value.val>>)
                           IN  IF text[value.next] = "}"
                               THEN JOk(JObj(members), value.next + 1)
                               ELSE IF text[value.next] = ","
                               THEN ScanMembers(text, value.next + 1, members)
                               ELSE JFail

ScanValue(text, i) ==
    IF i > Len(text) THEN JFail
    ELSE IF text[i] = "\"" THEN ScanString(text, i + 1, <<>>)
    ELSE IF text[i] = "{"
    THEN IF i + 1 <= Len(text) /\ text[i + 1] = "}" THEN JOk(JObj(<<>>), i + 2)
         ELSE ScanMembers(text, i + 1, <<>>)
    ELSE IF text[i] = "-"
    THEN LET n == ScanInt(text, i + 1)
         IN  IF n.ok THEN JOk(JInt(0 - n.val.v), n.next) ELSE JFail
    ELSE ScanInt(text, i)

\* json.loads(text): one value and nothing after it.
json_loads(text) ==
    LET r == ScanValue(text, 1)
    IN  IF r.ok /\ r.next = Len(text) + 1 THEN r ELSE JFail

\* dict lookup: whether data (a JSON object) has the key, and its value (of
\* a repeated key, the last).
HasKey(data, key) == \E k \in DOMAIN data.v : data.v[k][1] = key
Lookup(data, key) ==
    data.v[CHOOSE k \in DOMAIN data.v :
               /\ data.v[k][1] = key
               /\ \A j \in DOMAIN data.v : j > k => data.v[j][1] # key][2]

(***************************************************************************)
(* app/crypto/kdf.py                                                       *)
(***************************************************************************)
\* generate_salt: os.urandom(32); one symbolic value of 32 bytes.
generate_salt == [len |-> SaltLen, id |-> 1]

\* derive_key(password, salt): Argon2id under the configured settings; the
\* header's kdf_params are not an input.
derive_key(password, salt) ==
    [pw |-> password, salt |-> salt,
     m |-> settings.argon2_memory_mb * 1024, t |-> settings.argon2_time_cost,
     p |-> settings.argon2_parallelism, len |-> 32]

(***************************************************************************)
(* app/crypto/aead.py                                                      *)
(***************************************************************************)
\* The library primitive: ciphertext bytes (one per plaintext byte).
CtBytes(key, nonce, p) == [i \in 1..Len(p) |-> <<"c", key, nonce, i, p[i]>>]
\* The library primitive: the 16 tag bytes, bound to key, nonce and message.
TagBytes(key, nonce, p) == [j \in 1..TagLen |-> <<"t", key, nonce, j, p>>]
\* The nonce as bytes.
NonceBytes(nonce) == [j \in 1..nonce.len |-> <<"n", nonce.id, j>>]

\* AESGCM(key).encrypt(nonce, data, None) = ciphertext || tag.
AESGCM_encrypt(key, nonce, p) == CtBytes(key, nonce, p) \o TagBytes(key, nonce, p)
\* SecretBox(key).encrypt(data, nonce) = nonce || tag || ciphertext.
SecretBox_encrypt(key, nonce, p) ==
    NonceBytes(nonce) \o TagBytes(key, nonce, p) \o CtBytes(key, nonce, p)

Failure == [ok |-> FALSE, data |-> <<>>]
Success(p) == [ok |-> TRUE, data |-> p]

\* The plaintext a ciphertext-byte string stands for, if its bytes are
\* ciphertext bytes at all.
PlainOfCt(ct) == [i \in 1..Len(ct) |-> IF ct[i][1] = "c" THEN ct[i][5] ELSE 0]

\* AESGCM(key).decrypt(nonce, data, None): InvalidTag unless data is the
\* encryption of some p under (key, nonce).
AESGCM_decrypt(key, nonce, data) ==
    IF Len(data) < TagLen THEN Failure
    ELSE LET p == PlainOfCt(SubSeq(data, 1, Len(data) - TagLen))
         IN  IF data = AESGCM_encrypt(key, nonce, p) THEN Success(p) ELSE Failure

\* SecretBox(key).decrypt(tag || ciphertext, nonce): CryptoError unless it is
\* the encryption of some p under (key, nonce).
SecretBox_decrypt(key, nonce, data) ==
    IF Len(data) < TagLen THEN Failure
    ELSE LET p == PlainOfCt(SubSeq(data, TagLen + 1, Len(data)))
         IN  IF data = TagBytes(key, nonce, p) \o CtBytes(key, nonce, p)
             THEN Success(p) ELSE Failure

NonceSize(algorithm) == IF algorithm = AES THEN NonceLenAES ELSE NonceLenXChaCha

\* create_encryptor(algorithm, key): ValueError for an unsupported
\* algorithm or a key that is not 32 bytes.
create_encryptor_ok(algorithm, key) == algorithm \in Algorithms /\ key.len = 32

\* encrypt_chunk that brings a nonce of any length to the algorithm's length,
\* cutting it or filling it with zero bytes.
encrypt_chunk_resized(algorithm, key, data, nonce) ==
    LET resized == [nonce EXCEPT !.len = NonceSize(algorithm)]
    IN  IF algorithm = AES
        THEN Success(AESGCM_encrypt(key, resized, data))
        ELSE LET encrypted == SecretBox_encrypt(key, resized, data)
             IN  Success(NonceBytes(resized)
                         \o SubSeq(encrypted, NonceLenXChaCha + 1, Len(encrypted)))

\* AESGCMEncryptor.encrypt_chunk / XChaCha20Poly1305Encryptor.encrypt_chunk.
\* The result of a nonce of the wrong length is Failure (ValueError).
encrypt_chunk(algorithm, key, data, nonce) ==
    IF algorithm = AES
    THEN IF nonce.len # NonceLenAES THEN Failure
         ELSE Success(AESGCM_encrypt(key, nonce, data))
    ELSE IF nonce.len # NonceLenXChaCha THEN Failure
         ELSE LET encrypted == SecretBox_encrypt(key, nonce, data)
              IN  Success(NonceBytes(nonce)
                          \o SubSeq(encrypted, NonceLenXChaCha + 1, Len(encrypted)))

\* decrypt_chunk with no tag verification: accepts whatever it is given.
decrypt_chunk_unverified(algorithm, key, data, nonce) ==
    IF algorithm = AES
    THEN Success(PlainOfCt(SubSeq(data, 1, Len(data) - Min(TagLen, Len(data)))))
    ELSE Success(PlainOfCt(SubSeq(data, Min(Len(data), NonceLenXChaCha + TagLen) + 1,
                                  Len(data))))

\* AESGCMEncryptor.decrypt_chunk / XChaCha20Poly1305Encryptor.decrypt_chunk.
decrypt_chunk(algorithm, key, data, nonce) ==
    IF algorithm = AES
    THEN IF nonce.len # NonceLenAES THEN Failure
         ELSE AESGCM_decrypt(key, nonce, data)
    ELSE IF nonce.len # NonceLenXChaCha THEN Failure
         ELSE IF Len(data) < NonceLenXChaCha THEN Failure
         ELSE SecretBox_decrypt(key, nonce,
                                SubSeq(data, NonceLenXChaCha + 1, Len(data)))

(***************************************************************************)
(* app/crypto/container.py                                                 *)
(***************************************************************************)
E4P_MAGIC == <<69, 52, 80, 49>>

\* A Python object held in a header field is a JSON value [type, v].
\* The str with the given characters, among those the program names.
StrOf(chars) ==
    IF chars = Chars(AES) THEN AES
    ELSE IF chars = Chars(XCHACHA) THEN XCHACHA
    ELSE IF chars = Chars("argon2id") THEN "argon2id"
    ELSE "other"

\* datetime.utcnow().isoformat() + "Z", at the one instant of the model.
utcnow_isoformat == Chars("2024-01-01T00:00:00")

\* E4PContainer(algorithm).create_header: salt and nonce are the bytes (as
\* BytesOf has them), original_name a str's characters.
create_header(algorithm, salt, nonce, original_name, original_size) ==
    [algorithm |-> JStr(Chars(algorithm)),
     kdf |-> JStr(Chars("argon2id")),
     kdf_params |-> JObj(<< <<Chars("m"), JInt(settings.argon2_memory_mb * 1024)>>,
                            <<Chars("t"), JInt(settings.argon2_time_cost)>>,
                            <<Chars("p"), JInt(settings.argon2_parallelism)>> >>),
     salt |-> JStr(b64encode(BytesOf(salt))),
     nonce |-> JStr(b64encode(BytesOf(nonce))),
     original_name |-> JStr(original_name),
     original_size |-> JInt(original_size),
     timestamp |-> JStr(utcnow_isoformat \o <<"Z">>)]

\* A header with the given field values (E4PHeader(...)).
HeaderWith(alg, kdf, m, t, p, salt, nonce, name, size) ==
    [algorithm |-> JStr(alg),
     kdf |-> JStr(kdf),
     kdf_params |-> JObj(<< <<Chars("m"), JInt(m)>>, <<Chars("t"), JInt(t)>>,
                            <<Chars("p"), JInt(p)>> >>),
     salt |-> JStr(salt),
     nonce |-> JStr(nonce),
     original_name |-> JStr(name),
     original_size |-> JInt(size),
     timestamp |-> JStr(utcnow_isoformat \o <<"Z">>)]

\* E4PHeader.to_dict.
to_dict(header) ==
    JObj(<< <<Chars("alg"), header.algorithm>>,
            <<Chars("kdf"), header.kdf>>,
            <<Chars("kdf_params"), header.kdf_params>>,
            <<Chars("salt"), header.salt>>,
            <<Chars("nonce"), header.nonce>>,
            <<Chars("orig_name"), header.original_name>>,
            <<Chars("orig_size"), header.original_size>>,
            <<Chars("ts"), header.timestamp>> >>)

HeaderKeys == {Chars("alg"), Chars("kdf"), Chars("kdf_params"), Chars("salt"),
               Chars("nonce"), Chars("orig_name"), Chars("orig_size"), Chars("ts")}

\* E4PHeader.from_dict, for a dict that has the eight keys.
from_dict(data) ==
    [algorithm |-> Lookup(data, Chars("alg")),
     kdf |-> Lookup(data, Chars("kdf")),
     kdf_params |-> Lookup(data, Chars("kdf_params")),
     salt |-> Lookup(data, Chars("salt")),
     nonce |-> Lookup(data, Chars("nonce")),
     original_name |-> Lookup(data, Chars("orig_name")),
     original_size |-> Lookup(data, Chars("orig_size")),
     timestamp |-> Lookup(data, Chars("ts"))]

\* struct.pack('>I', n): the big-endian order.
pack_u32_be(n) ==
    <<(n \div 16777216) % 256, (n \div 65536) % 256, (n \div 256) % 256, n % 256>>

\* struct.pack('<I', n), for n < 2^32.
pack_u32_le(n) ==
    <<n % 256, (n \div 256) % 256, (n \div 65536) % 256, (n \div 16777216) % 256>>

\* struct.unpack('<I', bytes)[0], as its two 16-bit halves.
unpack_u32_le(bytes) ==
    [lo |-> bytes[1] + 256 * bytes[2], hi |-> bytes[3] + 256 * bytes[4]]

\* E4PContainer.serialize_header.
serialize_header(header) ==
    LET header_json == utf8_encode(json_dumps(to_dict(header)))
        header_len == Len(header_json)
    IN  E4P_MAGIC \o pack_u32_le(header_len) \o header_json

\* What deserialize_header raises, or returns.
Raises(error) ==
    [ok |-> FALSE, error |-> error,
     header |-> HeaderWith(<<>>, Chars("argon2id"), Argon2MemoryMb * 1024, Argon2TimeCost,
                          Argon2Parallelism, <<>>, <<>>, <<>>, 0),
     consumed |-> 0]
Returns(header, consumed) ==
    [ok |-> TRUE, error |-> "None", header |-> header, consumed |-> consumed]

\* The error json.loads raises (json.JSONDecodeError is a ValueError).
JSONDecodeErrorKind == "ValueError"
\* The error a missing key raises in from_dict.
MissingKeyErrorKind == "KeyError"

\* E4PContainer.deserialize_header.  The buffers of the model are shorter
\* than 2^16 bytes, so a declared length with a non-zero high half exceeds
\* them.
deserialize_header(data) ==
    IF Len(data) < 8 THEN Raises("ValueError")
    ELSE IF SubSeq(data, 1, 4) # E4P_MAGIC THEN Raises("ValueError")
    ELSE LET header_len == unpack_u32_le(SubSeq(data, 5, 8))
         IN  IF header_len.hi > 0 \/ Len(data) < 8 + header_len.lo
             THEN Raises("ValueError")
             ELSE LET decoded == utf8_decode(SubSeq(data, 9, 8 + header_len.lo))
                      parsed == json_loads(decoded.chars)
                  IN  IF ~decoded.ok THEN Raises("ValueError")
                      ELSE IF ~parsed.ok THEN Raises(JSONDecodeErrorKind)
                      ELSE IF parsed.val.type # "obj" THEN Raises("TypeError")
                      ELSE IF \E key \in HeaderKeys : ~HasKey(parsed.val, key)
                      THEN Raises(MissingKeyErrorKind)
                      ELSE Returns(from_dict(parsed.val), 8 + header_len.lo)

\* The fields are of the types E4PHeader declares.
HeaderTyped(header) ==
    /\ header.algorithm.type = "str"
    /\ header.kdf.type = "str"
    /\ header.kdf_params.type = "obj"
    /\ \A k \in DOMAIN header.kdf_params.v : header.kdf_params.v[k][2].type = "int"
    /\ header.salt.type = "str"
    /\ header.nonce.type = "str"
    /\ header.original_name.type = "str"
    /\ header.original_size.type = "int"
    /\ header.timestamp.type = "str"

\* What validate_header makes of a str field that must decode as base64.
b64decode_ok(text) == b64decode(text).ok

\* validate_header that accepts every header.
validate_header_skipped(header) == TRUE

\* E4PContainer.validate_header, for a header whose fields are typed.
validate_header(header) ==
    /\ header.algorithm.v \in {Chars(AES), Chars(XCHACHA)}
    /\ header.kdf.v = Chars("argon2id")
    /\ \A param \in {"m", "t", "p"} : HasKey(header.kdf_params, Chars(param))
    /\ Lookup(header.kdf_params, Chars("m")).v >= MinMemoryKb
    /\ Lookup(header.kdf_params, Chars("t")).v >= 1
    /\ Lookup(header.kdf_params, Chars("p")).v >= 1
    /\ b64decode_ok(header.salt.v)
    /\ b64decode_ok(header.nonce.v)
    /\ header.original_size.v >= 0
    /\ header.original_size.v <= MaxFileSizeBytes


(***************************************************************************)
(* State.                                                                  *)
(***************************************************************************)
VARIABLES
    \* -- StreamProcessor: one encrypt_file call, then one decrypt_file call
    sPc,          \* "new", "encrypting", "stored", "decrypting", "returned",
                  \* "inspected"
    plain,        \* the bytes of encrypt_file's input_path
    algorithm,    \* encrypt_file's algorithm argument
    password,     \* encrypt_file's password argument
    encKey,       \* encrypt_file's local key
    baseNonce,    \* encrypt_file's local nonce
    outHeader,    \* the header encrypt_file returns
    fileHead,     \* the serialized header at the start of its output file
    payload,      \* the bytes of that file after the header
    recEnds,      \* the offset in payload at which each written record ends
    inPos,        \* how many input bytes encrypt_file has read
    nonceLog,     \* the nonce of each encrypt_chunk call, in call order
    tampered,     \* 0, or the offset in payload of the one flipped byte
    dPassword,    \* decrypt_file's password argument
    dHeader,      \* decrypt_file's local header
    dNonce,       \* decrypt_file's local nonce
    dKey,         \* decrypt_file's local key
    dPos,         \* decrypt_file's read offset in payload
    dReads,       \* how many decrypt_chunk calls of decrypt_file succeeded
    outExists,    \* whether decrypt_file's output_path exists
    outBytes,     \* the bytes of decrypt_file's output_path
    dResult,      \* "none", or what decrypt_file returned: "True" or "False"
    infoFile,     \* the bytes of get_file_info's input_path
    info,         \* what get_file_info returned
    \* -- TaskManager, StorageManager and the routes of app/routes/encrypt.py
    tasks,        \* TaskManager.tasks: task id (1, 2, ... in creation order) -> task
    queue,        \* TaskManager.queue
    semaphore,    \* the value of TaskManager.semaphore
    fsFiles,      \* the paths that exist under settings.temp_dir
    wPc,          \* where the worker is suspended: "idle" (in queue.get), or in
                  \* encrypt_file: "open_out", "open_in", "copy"
    wTask,        \* _process_task's task_id
    wFile,        \* the index in task.files of the file being encrypted
    wProcessed,   \* _process_task's processed_files
    processedOf,  \* history: for each task, processed_files of its last run
    raisedOf,     \* history: for each task, the file whose encryption raised
                  \* and the error, or NoRaise
    nFaults,      \* history: how many times the environment has interfered
    \* -- E4PContainer called on its own: one header or one buffer
    cPc,          \* "idle", "header" (a header is at hand), "validated",
                  \* "serialized", "parsed", "buffer" (a buffer is at hand),
                  \* "scanned"
    cHeader,      \* the header at hand
    cData,        \* the buffer at hand
    cTrail,       \* how many bytes of the buffer follow the serialized header
    cValid,       \* what validate_header returned
    cRead,        \* what deserialize_header returned or raised
    cInfo,        \* what get_file_info returned for a file holding the buffer
    \* -- create_encryptor and one call of the encryptor it returns
    aPc,          \* "idle", "args" (arguments at hand), "constructed",
                  \* "refused", "encrypted", "decrypted"
    aAlgorithm,   \* create_encryptor's algorithm argument
    aKey,         \* create_encryptor's key argument
    aNonce,       \* the nonce argument of encrypt_chunk / decrypt_chunk
    aData,        \* the data argument of encrypt_chunk / decrypt_chunk
    aOut,         \* what encrypt_chunk / decrypt_chunk returned or raised
    \* -- the environment of a stored container
    damage,       \* what happened to the stored container: "none", "reordered",
                  \* "truncated" (its records), "replaced" (the whole file)
    \* -- TokenManager and the download route: one download token
    tPc,          \* "idle", "issued" (create_download_token has returned)
    now,          \* int(time.time())
    tToken,       \* the token string a client presents
    tPath,        \* create_download_token's file_path argument
    tName,        \* create_download_token's filename argument
    tIssued,      \* the time create_download_token was called
    tChanged,     \* 0, or the index of the byte of the token that was changed
    tFile,        \* whether the file at tPath exists
    tResult,      \* what the last validate_token returned
    tLog,         \* history: the status code of each download_file call
    \* -- TaskManager.get_task_status
    snapshot      \* what the last get_task_status returned

streamVars == <<sPc, plain, algorithm, password, encKey, baseNonce, outHeader,
                fileHead, payload, recEnds, inPos, nonceLog, tampered, dPassword,
                dHeader, dNonce, dKey, dPos, dReads, outExists, outBytes, dResult,
                infoFile, info>>

taskVars == <<tasks, queue, semaphore, fsFiles, wPc, wTask, wFile, wProcessed,
              processedOf, raisedOf, nFaults>>

containerVars == <<cPc, cHeader, cData, cTrail, cValid, cRead, cInfo>>

aeadVars == <<aPc, aAlgorithm, aKey, aNonce, aData, aOut>>

libVars == <<containerVars, aeadVars>>

envVars == <<settings, damage>>

tokenVars == <<tPc, now, tToken, tPath, tName, tIssued, tChanged, tFile, tResult, tLog>>

svcVars == <<tokenVars, snapshot>>

vars == <<streamVars, taskVars, libVars, envVars, svcVars>>

NoKey == [pw |-> "", salt |-> [len |-> 0, id |-> 0], m |-> 0, t |-> 0, p |-> 0,
          len |-> 0]
NoNonce == [len |-> 0, id |-> 0]
NoHeader ==
    HeaderWith(<<>>, Chars("argon2id"), Argon2MemoryMb * 1024, Argon2TimeCost,
               Argon2Parallelism, <<>>, <<>>, <<>>, 0)
NoInfo == [called |-> FALSE, none |-> TRUE, header |-> NoHeader]

\* The process starts under the default configuration; the stored container
\* is as encrypt_file will write it.
EnvInit ==
    /\ settings = DefaultSettings
    /\ damage = "none"

StreamInit ==
    /\ sPc = "new"
    /\ plain = <<>>
    /\ algorithm = AES
    /\ password = ""
    /\ encKey = NoKey
    /\ baseNonce = NoNonce
    /\ outHeader = NoHeader
    /\ fileHead = <<>>
    /\ dHeader = NoHeader
    /\ dNonce = NoNonce
    /\ payload = <<>>
    /\ recEnds = <<>>
    /\ inPos = 0
    /\ nonceLog = <<>>
    /\ tampered = 0
    /\ dPassword = ""
    /\ dKey = NoKey
    /\ dPos = 0
    /\ dReads = 0
    /\ outExists = FALSE
    /\ outBytes = <<>>
    /\ dResult = "none"
    /\ infoFile = <<>>
    /\ info = NoInfo

(***************************************************************************)
(* app/crypto/stream.py: StreamProcessor.encrypt_file                      *)
(***************************************************************************)
\* Lines 38-64: salt, nonce, key, encryptor, header; the output file is
\* opened and the header written.
EncryptStart ==
    /\ sPc = "new"
    /\ \E n \in PlainLens, alg \in Algorithms, pw \in EncPasswords, id \in 1..MaxNonceId :
         LET salt == generate_salt
             nonce == [len |-> IF alg = AES THEN NonceLenAES ELSE NonceLenXChaCha,
                       id |-> id]
             key == derive_key(pw, salt)
         IN  /\ create_encryptor_ok(alg, key)
             /\ plain' = PlainOf(n)
             /\ algorithm' = alg
             /\ password' = pw
             /\ encKey' = key
             /\ baseNonce' = nonce
             /\ outHeader' = create_header(alg, salt, nonce, Chars("input"), n)
    /\ fileHead' = serialize_header(outHeader')
    /\ sPc' = "encrypting"
    /\ UNCHANGED <<payload, recEnds, inPos, nonceLog, tampered, dPassword, dHeader,
                   dNonce, dKey, dPos, dReads, outExists, outBytes, dResult>>
    /\ UNCHANGED <<infoFile, info, taskVars, libVars, envVars, svcVars>>

\* The nonce encrypt_file passes to encrypt_chunk for the chunk it is about
\* to encrypt: the base nonce, whatever the chunk.
ChunkNonce == baseNonce

\* Lines 68-75, a non-empty read: the chunk is encrypted and written.
EncryptChunk ==
    /\ sPc = "encrypting"
    /\ inPos < Len(plain)
    /\ LET chunk == SubSeq(plain, inPos + 1, Min(inPos + ChunkSize, Len(plain)))
           nonce == ChunkNonce
           encrypted == encrypt_chunk(algorithm, encKey, chunk, nonce)
       IN  /\ encrypted.ok
           /\ payload' = payload \o encrypted.data
           /\ recEnds' = Append(recEnds, Len(payload) + Len(encrypted.data))
           /\ nonceLog' = Append(nonceLog, nonce)
           /\ inPos' = inPos + Len(chunk)
    /\ UNCHANGED <<sPc, plain, algorithm, password, encKey, baseNonce, outHeader,
                   fileHead, tampered, dPassword, dHeader, dNonce, dKey, dPos,
                   dReads, outExists, outBytes, dResult>>
    /\ UNCHANGED <<infoFile, info, taskVars, libVars, envVars, svcVars>>

\* Lines 69-71 and 77, the empty read: the loop ends, the files are closed
\* and the header is returned.
EncryptEnd ==
    /\ sPc = "encrypting"
    /\ inPos = Len(plain)
    /\ sPc' = "stored"
    /\ UNCHANGED <<plain, algorithm, password, encKey, baseNonce, outHeader,
                   fileHead, payload, recEnds, inPos, nonceLog, tampered, dPassword,
                   dHeader, dNonce, dKey, dPos, dReads, outExists, outBytes, dResult>>
    /\ UNCHANGED <<infoFile, info, taskVars, libVars, envVars, svcVars>>

(***************************************************************************)
(* The environment: one bit of the stored container's payload is flipped.  *)
(***************************************************************************)
Flip(byte) == <<"flipped", byte>>

Tamper ==
    /\ sPc = "stored"
    /\ tampered = 0
    /\ \E i \in 1..Len(payload) :
         /\ payload' = [payload EXCEPT ![i] = Flip(payload[i])]
         /\ tampered' = i
    /\ UNCHANGED <<sPc, plain, algorithm, password, encKey, baseNonce, outHeader,
                   fileHead, recEnds, inPos, nonceLog, dPassword, dHeader, dNonce,
                   dKey, dPos, dReads, outExists, outBytes, dResult>>
    /\ UNCHANGED <<infoFile, info, taskVars, libVars, envVars, svcVars>>

\* The environment: the process is restarted under another valid Argon2
\* configuration (app/config.py reads the values from the environment),
\* before a file is encrypted or while a container is stored.
Reconfigure ==
    /\ sPc \in {"new", "stored"}
    /\ \E cfg \in SettingsChoices \ {settings} : settings' = cfg
    /\ UNCHANGED <<streamVars, taskVars, libVars, damage, svcVars>>

\* The r-th record of the stored payload, as encrypt_file wrote it.
StoredRecord(r) == SubSeq(payload, (IF r = 1 THEN 0 ELSE recEnds[r - 1]) + 1, recEnds[r])

\* The environment: the last records of the stored container are removed,
\* one of them or more, up to all of them.
Truncate ==
    /\ sPc = "stored"
    /\ tampered = 0
    /\ damage = "none"
    /\ \E kept \in 0..(Len(recEnds) - 1) :
         payload' = Flatten([r \in 1..kept |-> StoredRecord(r)])
    /\ damage' = "truncated"
    /\ UNCHANGED <<sPc, plain, algorithm, password, encKey, baseNonce, outHeader,
                   fileHead, recEnds, inPos, nonceLog, tampered, dPassword, dHeader,
                   dNonce, dKey, dPos, dReads, outExists, outBytes, dResult>>
    /\ UNCHANGED <<infoFile, info, taskVars, libVars, settings, svcVars>>

\* The environment: two records of the stored container change places.
Reorder ==
    /\ sPc = "stored"
    /\ tampered = 0
    /\ damage = "none"
    /\ \E i \in 1..Len(recEnds), j \in 1..Len(recEnds) :
         /\ i < j
         /\ payload' = Flatten([r \in 1..Len(recEnds) |->
                                  StoredRecord(IF r = i THEN j ELSE IF r = j THEN i ELSE r)])
         /\ payload' # payload
    /\ damage' = "reordered"
    /\ UNCHANGED <<sPc, plain, algorithm, password, encKey, baseNonce, outHeader,
                   fileHead, recEnds, inPos, nonceLog, tampered, dPassword, dHeader,
                   dNonce, dKey, dPos, dReads, outExists, outBytes, dResult>>
    /\ UNCHANGED <<infoFile, info, taskVars, libVars, settings, svcVars>>

(***************************************************************************)
(* app/crypto/stream.py: StreamProcessor.decrypt_file                      *)
(***************************************************************************)
\* The bytes of the file encrypt_file has written: the serialized header,
\* then the records.
StoredFile == fileHead \o payload

\* Lines 98-103 (and 150-154): the first 8192 bytes of the file are read and
\* the header parsed from them.
ReadHeader ==
    deserialize_header(SubSeq(StoredFile, 1, Min(HeaderReadSize, Len(StoredFile))))

\* Lines 96-124: the header is parsed and validated, the key derived, the
\* encryptor created, and the output file opened for writing.
DecryptOpen ==
    /\ sPc = "stored"
    /\ \E read \in {ReadHeader} :
       \E valid \in {read.ok /\ HeaderTyped(read.header) /\ validate_header(read.header)} :
       \E salt \in {IF valid THEN ValueOf(b64decode(read.header.salt.v).data) ELSE NoKey.salt} :
       \E nonce \in {IF valid THEN ValueOf(b64decode(read.header.nonce.v).data) ELSE NoNonce} :
       \E pw \in DecPasswords :
             LET header == read.header
                 key == derive_key(pw, salt)
             IN  /\ dPassword' = pw
                 /\ IF ~valid
                    THEN /\ dResult' = "False"
                         /\ sPc' = "returned"
                         /\ UNCHANGED <<dHeader, dNonce, dKey, outExists>>
                    ELSE IF ~create_encryptor_ok(StrOf(header.algorithm.v), key)
                    THEN /\ dResult' = "False"
                         /\ sPc' = "returned"
                         /\ dHeader' = header
                         /\ dNonce' = nonce
                         /\ UNCHANGED <<dKey, outExists>>
                    ELSE /\ dHeader' = header
                         /\ dNonce' = nonce
                         /\ dKey' = key
                         /\ outExists' = TRUE
                         /\ sPc' = "decrypting"
                         /\ UNCHANGED dResult
    /\ dPos' = 0
    /\ outBytes' = <<>>
    /\ UNCHANGED <<plain, algorithm, password, encKey, baseNonce, outHeader,
                   fileHead, payload, recEnds, inPos, nonceLog, tampered, dReads>>
    /\ UNCHANGED <<infoFile, info, taskVars, libVars, envVars, svcVars>>

\* What decrypt_file does with its output file when a chunk fails: the
\* except clause returns False and removes nothing.
OutExistsAfterFailure == outExists

\* Lines 125-137, one turn of the loop: read chunk_size bytes; an empty read
\* ends the loop and True is returned; otherwise the bytes read are handed
\* to decrypt_chunk with the header's nonce, and the plaintext is written,
\* or the exception makes decrypt_file return False.
DecryptChunk ==
    /\ sPc = "decrypting"
    /\ LET chunk == SubSeq(payload, dPos + 1, Min(dPos + ChunkSize, Len(payload)))
           nonce == dNonce
           decrypted == decrypt_chunk(StrOf(dHeader.algorithm.v), dKey, chunk, nonce)
       IN  IF chunk = <<>>
           THEN /\ dResult' = "True"
                /\ sPc' = "returned"
                /\ UNCHANGED <<dPos, dReads, outBytes, outExists>>
           ELSE IF decrypted.ok
           THEN /\ outBytes' = outBytes \o decrypted.data
                /\ dPos' = dPos + Len(chunk)
                /\ dReads' = dReads + 1
                /\ UNCHANGED <<dResult, sPc, outExists>>
           ELSE /\ dResult' = "False"
                /\ sPc' = "returned"
                /\ outExists' = OutExistsAfterFailure
                /\ UNCHANGED <<dPos, dReads, outBytes>>
    /\ UNCHANGED <<plain, algorithm, password, encKey, baseNonce, outHeader,
                   fileHead, payload, recEnds, inPos, nonceLog, tampered, dPassword,
                   dHeader, dNonce, dKey>>
    /\ UNCHANGED <<infoFile, info, taskVars, libVars, envVars, svcVars>>

(***************************************************************************)
(* app/crypto/stream.py: StreamProcessor.get_file_info                     *)
(***************************************************************************)
\* get_file_info that returns whatever header deserialize_header reads.
get_file_info_unvalidated(file) ==
    LET read == deserialize_header(SubSeq(file, 1, Min(HeaderReadSize, Len(file))))
    IN  IF read.ok
        THEN [called |-> TRUE, none |-> FALSE, header |-> read.header]
        ELSE [called |-> TRUE, none |-> TRUE, header |-> NoHeader]

\* StreamProcessor.get_file_info for a file with the given bytes: the header,
\* or None.
get_file_info(file) ==
    LET read == deserialize_header(SubSeq(file, 1, Min(HeaderReadSize, Len(file))))
    IN  IF read.ok /\ HeaderTyped(read.header) /\ validate_header(read.header)
        THEN [called |-> TRUE, none |-> FALSE, header |-> read.header]
        ELSE [called |-> TRUE, none |-> TRUE, header |-> NoHeader]

\* Files of other origin than encrypt_file (uploads to the inspection
\* endpoint): buffers that are no serialized header, and serialized headers
\* that validate_header refuses.
InvalidHeaders ==
    {HeaderWith(alg, kdf, Argon2MemoryMb * 1024, t, Argon2Parallelism,
                <<"A", "A", "A", "A">>, <<"A", "A", "A", "A">>, <<"a">>, size) :
        alg \in {Chars(AES), Chars("DES")}, kdf \in {Chars("argon2id"), Chars("scrypt")},
        t \in {0, Argon2TimeCost}, size \in {1, MaxFileSizeBytes + 1}}
    \ {HeaderWith(Chars(AES), Chars("argon2id"), Argon2MemoryMb * 1024, Argon2TimeCost,
                  Argon2Parallelism, <<"A", "A", "A", "A">>, <<"A", "A", "A", "A">>,
                  <<"a">>, 1)}
OtherFiles ==
    {<<>>, <<69, 52, 80, 49>>, [i \in 1..8 |-> 0],
     <<69, 52, 80, 49, 5, 0, 0, 0, 123, 125>>,
     <<69, 52, 80, 49, 1, 0, 0, 0, 123>>,
     <<69, 52, 80, 49, 2, 0, 0, 0, 123, 125>>,
     <<69, 52, 80, 49, 1, 0, 0, 0, 49>>,
     [i \in 1..HeaderReadSize + 1 |-> 110]}
    \cup {serialize_header(h) \o <<1, 2, 3>> : h \in InvalidHeaders}

\* get_file_info(input_path), for the container encrypt_file has written
\* (as it is stored) or for a file of other origin.
GetFileInfo ==
    /\ sPc = "stored"
    /\ \E file \in {StoredFile} \cup (IF tampered = 0 THEN OtherFiles ELSE {}) :
       \E result \in {get_file_info(file)} :
         /\ infoFile' = file
         /\ info' = result
    /\ sPc' = "inspected"
    /\ UNCHANGED <<plain, algorithm, password, encKey, baseNonce, outHeader,
                   fileHead, payload, recEnds, inPos, nonceLog, tampered, dPassword,
                   dHeader, dNonce, dKey, dPos, dReads, outExists, outBytes, dResult>>
    /\ UNCHANGED <<taskVars, libVars, envVars, svcVars>>

\* The environment: the file handed to decrypt_file is not the container
\* encrypt_file wrote but a file of other origin.  What precedes the offset
\* deserialize_header returns is the head, the rest the payload.
Replace ==
    /\ sPc = "stored"
    /\ tampered = 0
    /\ damage = "none"
    /\ \E file \in OtherFiles :
       \E read \in {deserialize_header(SubSeq(file, 1, Min(HeaderReadSize, Len(file))))} :
       \E offset \in {IF read.ok THEN read.consumed ELSE Len(file)} :
         /\ fileHead' = SubSeq(file, 1, offset)
         /\ payload' = SubSeq(file, offset + 1, Len(file))
    /\ damage' = "replaced"
    /\ UNCHANGED <<sPc, plain, algorithm, password, encKey, baseNonce, outHeader,
                   recEnds, inPos, nonceLog, tampered, dPassword, dHeader,
                   dNonce, dKey, dPos, dReads, outExists, outBytes, dResult>>
    /\ UNCHANGED <<infoFile, info, taskVars, libVars, settings, svcVars>>

StreamNext == EncryptStart \/ EncryptChunk \/ EncryptEnd \/ Tamper \/ GetFileInfo
              \/ DecryptOpen \/ DecryptChunk

\* encrypt_file, a change of configuration, decrypt_file.
ConfigNext == EncryptStart \/ EncryptChunk \/ EncryptEnd \/ Reconfigure
              \/ DecryptOpen \/ DecryptChunk

\* encrypt_file, then decrypt_file of the container or of another file.
UploadNext == EncryptStart \/ EncryptChunk \/ EncryptEnd \/ Replace
              \/ DecryptOpen \/ DecryptChunk

\* encrypt_file, damage to the stored records, decrypt_file.
DamageNext == EncryptStart \/ EncryptChunk \/ EncryptEnd \/ Truncate \/ Reorder
              \/ DecryptOpen \/ DecryptChunk


(***************************************************************************)
(* app/services/storage.py                                                 *)
(***************************************************************************)
\* The names of the uploads of one request: "a", "b", ... in upload order.
UploadNames(n) == [i \in 1..n |-> <<"a", "b", "c", "d">>[i]]

\* A path under temp_dir: the sanitized name, whether the ".e4p" suffix was
\* put before its extension, and how many "_<counter>" parts were added.
PathOf(name, suffix, k) == [name |-> name, e4p |-> (suffix = ".e4p"), k |-> k]

\* StorageManager.create_temp_file: the first of name, name_1, name_1_2, ...
\* that does not exist; the path is returned, no file is created.
create_temp_file(fs, filename, suffix) ==
    LET k == CHOOSE k \in 0..Cardinality(fs) :
                 /\ PathOf(filename, suffix, k) \notin fs
                 /\ \A j \in 0..(k - 1) : PathOf(filename, suffix, j) \in fs
    IN  PathOf(filename, suffix, k)

\* StorageManager.cleanup_task_files: what is left of fs.
cleanup_task_files(fs, task_files) ==
    fs \ ({task_files[i].temp_path : i \in DOMAIN task_files}
          \cup {task_files[i].encrypted_path : i \in DOMAIN task_files})

(***************************************************************************)
(* app/routes/encrypt.py: encrypt_files, lines 66-92                       *)
(***************************************************************************)
\* Each upload is saved under a fresh temp path, and given an encrypted path.
RECURSIVE Uploaded(_)
\* How many files the tasks ts hold.
Uploaded(ts) == IF ts = <<>> THEN 0 ELSE Len(Head(ts).files) + Uploaded(Tail(ts))

RECURSIVE SaveUploads(_, _, _)
SaveUploads(names, fs, acc) ==
    IF names = <<>> THEN [fs |-> fs, files |-> acc]
    ELSE LET temp_path == create_temp_file(fs, Head(names), "")
             fs1 == fs \cup {temp_path}
             encrypted_path == create_temp_file(fs1, Head(names), ".e4p")
             file_info == [original_name |-> Head(names),
                           temp_path |-> temp_path,
                           encrypted_path |-> encrypted_path,
                           header |-> FALSE,
                           download_token |-> FALSE]
         IN  SaveUploads(Tail(names), fs1, Append(acc, file_info))

(***************************************************************************)
(* app/services/tasks.py                                                   *)
(***************************************************************************)
PENDING == "pending"
PROCESSING == "processing"
COMPLETED == "completed"
FAILED == "failed"

\* A float that is the quotient n / d.
Zero == [n |-> 0, d |-> 1]
RatEq(x, y) == x.n * y.d = y.n * x.d
RatLe(x, y) == x.n * y.d <= y.n * x.d

NoRaise == [file |-> 0, error |-> "None"]

\* A task that is processing from the moment it is created.
InitialStatusProcessing == PROCESSING

\* The status create_task gives a new task.
InitialStatus == PENDING

\* EncryptionTask(...) as create_task builds it.
NewTask(files, pw, alg) ==
    [status |-> InitialStatus, files |-> files, password |-> pw, algorithm |-> alg,
     completed_at |-> "None", error_message |-> "None", progress |-> Zero]

\* The progress computed with an integer division.
ProgressOfFloorDiv(processed_files, total_files) ==
    [n |-> (processed_files \div total_files) * 100, d |-> 1]

\* task.progress after processed_files of total_files files:
\* (processed_files / total_files) * 100.
ProgressOf(processed_files, total_files) ==
    [n |-> processed_files * 100, d |-> total_files]

\* _process_task, lines 107-108.
complete_task(task) == [task EXCEPT !.status = COMPLETED, !.completed_at = "set"]

\* An except clause that also resets the progress.
fail_task_reset(task, error) ==
    [task EXCEPT !.status = FAILED, !.error_message = error, !.completed_at = "set",
                 !.progress = Zero]

\* A task that is marked failed in two steps: the error and the timestamp
\* are written, the status is not yet.
fail_task_unmarked(task, error) ==
    [task EXCEPT !.error_message = error, !.completed_at = "set"]

\* _process_task, lines 110-113: the except clause.
fail_task(task, error) ==
    [task EXCEPT !.status = FAILED, !.error_message = error, !.completed_at = "set"]

\* A queue that hands out the newest item.
queue_get_lifo(q) == [item |-> q[Len(q)], rest |-> SubSeq(q, 1, Len(q) - 1)]

\* asyncio.Queue.get: the oldest item.
queue_get(q) == [item |-> Head(q), rest |-> Tail(q)]

TaskInit ==
    /\ tasks = <<>>
    /\ queue = <<>>
    /\ semaphore = MaxConcurrency
    /\ fsFiles = {}
    /\ wPc = "idle"
    /\ wTask = 0
    /\ wFile = 0
    /\ wProcessed = 0
    /\ processedOf = <<>>
    /\ raisedOf = <<>>
    /\ nFaults = 0

\* encrypt_files (the uploads are saved) followed by TaskManager.create_task.
Submit ==
    /\ Len(tasks) < MaxTasks
    /\ \E n \in 1..MaxFiles :
         /\ Uploaded(tasks) + n <= MaxUploads
         /\ LET saved == SaveUploads(UploadNames(n), fsFiles, <<>>)
                task_id == Len(tasks) + 1
            IN  /\ fsFiles' = saved.fs
                /\ tasks' = Append(tasks, NewTask(saved.files, "pw", AES))
                /\ queue' = Append(queue, task_id)
                /\ processedOf' = Append(processedOf, 0)
                /\ raisedOf' = Append(raisedOf, NoRaise)
    /\ UNCHANGED <<semaphore, wPc, wTask, wFile, wProcessed, nFaults>>
    /\ UNCHANGED <<streamVars, libVars, envVars, svcVars>>

\* A semaphore that is not given back.
semaphore_kept(value) == value

\* _process_task, line 67: leaving "async with self.semaphore" releases it,
\* on a return and on an exception alike.
semaphore_release(value) == value + 1

\* A worker whose loop ends with the task it ran.
worker_after_task_stopped == "stopped"

\* _worker, lines 56-60: after _process_task the loop is back in queue.get.
worker_after_task == "idle"

\* The worker leaves _process_task: the semaphore is released and the worker
\* is back in queue.get.
WorkerLeaves(ts, t, processed, raised) ==
    /\ tasks' = ts
    /\ processedOf' = [processedOf EXCEPT ![t] = processed]
    /\ raisedOf' = [raisedOf EXCEPT ![t] = raised]
    /\ wPc' = worker_after_task
    /\ wTask' = 0
    /\ wFile' = 0
    /\ wProcessed' = 0

\* _process_task from the top of its loop over task.files, about to handle
\* file i with ts the task table as updated so far: after the last file the
\* task is completed; otherwise encrypt_file is called, and runs up to its
\* first suspension, the opening of the output file; input_path.stat()
\* raises before that when the input file is gone.
LoopFrom(ts, t, i, processed, sem) ==
    IF i > Len(ts[t].files)
    THEN /\ WorkerLeaves([ts EXCEPT ![t] = complete_task(@)], t, processed, raisedOf[t])
         /\ semaphore' = semaphore_release(sem)
    ELSE IF ts[t].files[i].temp_path \notin fsFiles
    THEN /\ WorkerLeaves([ts EXCEPT ![t] = fail_task(@, "No such file")], t, processed,
                         [file |-> i, error |-> "No such file"])
         /\ semaphore' = semaphore_release(sem)
    ELSE /\ tasks' = ts
         /\ processedOf' = [processedOf EXCEPT ![t] = processed]
         /\ raisedOf' = [raisedOf EXCEPT ![t] = NoRaise]
         /\ wPc' = "open_out"
         /\ wTask' = t
         /\ wFile' = i
         /\ wProcessed' = processed
         /\ semaphore' = sem

\* _worker, line 58, and _process_task, lines 67-77: a task id is taken from
\* the queue, the semaphore acquired, the task set to processing.
WorkerTake ==
    /\ wPc = "idle"
    /\ queue # <<>>
    /\ semaphore > 0
    /\ LET got == queue_get(queue)
           t == got.item
       IN  /\ queue' = got.rest
           /\ IF t \notin DOMAIN tasks
              THEN UNCHANGED <<tasks, semaphore, wPc, wTask, wFile, wProcessed,
                               processedOf, raisedOf>>
              ELSE LoopFrom([tasks EXCEPT ![t].status = PROCESSING, ![t].progress = Zero],
                            t, 1, 0, semaphore - 1)
    /\ UNCHANGED <<fsFiles, nFaults>>
    /\ UNCHANGED <<streamVars, libVars, envVars, svcVars>>

\* encrypt_file, line 63: the output file is opened for writing (created or
\* truncated), and the header written.
WorkerOpenOut ==
    /\ wPc = "open_out"
    /\ fsFiles' = fsFiles \cup {tasks[wTask].files[wFile].encrypted_path}
    /\ wPc' = "open_in"
    /\ UNCHANGED <<tasks, queue, semaphore, wTask, wFile, wProcessed, processedOf,
                   raisedOf, nFaults>>
    /\ UNCHANGED <<streamVars, libVars, envVars, svcVars>>

\* encrypt_file, line 67: the input file is opened for reading; that raises
\* when it is gone, and the except clause of _process_task fails the task.
WorkerOpenIn ==
    /\ wPc = "open_in"
    /\ IF tasks[wTask].files[wFile].temp_path \in fsFiles
       THEN /\ wPc' = "copy"
            /\ UNCHANGED <<tasks, semaphore, wTask, wFile, wProcessed, processedOf,
                           raisedOf>>
       ELSE /\ WorkerLeaves([tasks EXCEPT ![wTask] = fail_task(@, "No such file")],
                            wTask, wProcessed,
                            [file |-> wFile, error |-> "No such file"])
            /\ semaphore' = semaphore_release(semaphore)
    /\ UNCHANGED <<queue, fsFiles, nFaults>>
    /\ UNCHANGED <<streamVars, libVars, envVars, svcVars>>

\* encrypt_file returns (lines 68-77), then _process_task, lines 91-105:
\* output_path.stat() raises when the output file is gone; otherwise the
\* file's header, size and download token are recorded, the progress is
\* updated, and the loop goes on.
WorkerFinishFile ==
    /\ wPc = "copy"
    /\ LET t == wTask
           i == wFile
       IN  IF tasks[t].files[i].encrypted_path \notin fsFiles
           THEN /\ WorkerLeaves([tasks EXCEPT ![t] = fail_task(@, "No such file")],
                                t, wProcessed,
                                [file |-> i, error |-> "No such file"])
                /\ semaphore' = semaphore_release(semaphore)
           ELSE LET processed == wProcessed + 1
                    ts == [tasks EXCEPT ![t].files[i].header = TRUE,
                                        ![t].files[i].download_token = TRUE,
                                        ![t].progress =
                                            ProgressOf(processed, Len(tasks[t].files))]
                IN  LoopFrom(ts, t, i + 1, processed, semaphore)
    /\ UNCHANGED <<queue, fsFiles, nFaults>>
    /\ UNCHANGED <<streamVars, libVars, envVars, svcVars>>

\* encrypt_file raises while it reads and writes chunks (lines 68-75: an
\* OSError of the operating system); the except clause of _process_task
\* fails the task.
WorkerIOError ==
    /\ wPc = "copy"
    /\ nFaults < MaxFaults
    /\ nFaults' = nFaults + 1
    /\ WorkerLeaves([tasks EXCEPT ![wTask] = fail_task(@, "OSError")],
                    wTask, wProcessed, [file |-> wFile, error |-> "OSError"])
    /\ semaphore' = semaphore_release(semaphore)
    /\ UNCHANGED <<queue, fsFiles>>
    /\ UNCHANGED <<streamVars, libVars, envVars, svcVars>>

(***************************************************************************)
(* app/routes/encrypt.py: cancel_task                                      *)
(***************************************************************************)
\* The worker, woken by queue.put or back from a task, runs before the
\* handler of a request that arrives later.
WorkerRunnable == wPc = "idle" /\ queue # <<>> /\ semaphore > 0

\* DELETE /api/task/{task_id} for an existing task: refused (HTTP 400) for
\* a completed or failed task; otherwise the task is marked failed and its
\* files are removed.
Cancel ==
    /\ ~WorkerRunnable
    /\ \E t \in DOMAIN tasks :
         IF tasks[t].status \in {COMPLETED, FAILED}
         THEN UNCHANGED <<tasks, fsFiles, nFaults>>
         ELSE /\ nFaults < MaxFaults
              /\ nFaults' = nFaults + 1
              /\ tasks' = [tasks EXCEPT ![t].status = FAILED,
                                        ![t].error_message = "Task cancelled by user"]
              /\ fsFiles' = cleanup_task_files(fsFiles, tasks[t].files)
    /\ UNCHANGED <<queue, semaphore, wPc, wTask, wFile, wProcessed, processedOf,
                   raisedOf>>
    /\ UNCHANGED <<streamVars, libVars, envVars, svcVars>>

(***************************************************************************)
(* app/services/tasks.py: TaskManager.get_task_status                      *)
(***************************************************************************)
\* get_task_status(task_id): None for an unknown id, otherwise the fields of
\* the task as they are at the call.
get_task_status(task_id) ==
    IF task_id \notin DOMAIN tasks
    THEN [called |-> TRUE, none |-> TRUE, task_id |-> task_id, status |-> "None",
          progress |-> Zero, files |-> <<>>, completed_at |-> "None",
          error_message |-> "None"]
    ELSE [called |-> TRUE, none |-> FALSE, task_id |-> task_id,
          status |-> tasks[task_id].status,
          progress |-> tasks[task_id].progress,
          files |-> tasks[task_id].files,
          completed_at |-> tasks[task_id].completed_at,
          error_message |-> tasks[task_id].error_message]

\* GET /api/status/{task_id}: the handler runs between two steps of the
\* worker, at any point where the worker is suspended.
GetTaskStatus ==
    /\ \E task_id \in 1..MaxTasks : snapshot' = get_task_status(task_id)
    /\ UNCHANGED <<streamVars, taskVars, libVars, envVars, tokenVars>>

TaskNext == Submit \/ WorkerTake \/ WorkerOpenOut \/ WorkerOpenIn
            \/ WorkerFinishFile \/ WorkerIOError \/ Cancel

(***************************************************************************)
(* app/services/tokens.py: TokenManager                                    *)
(***************************************************************************)
\* settings.download_token_ttl_s.
TokenTtl == 900
\* hashlib.sha256().digest_size.
DigestLen == 32
\* The time of the first step, and how many download_file calls present the
\* token.
StartTime == 1000
MaxDownloads == 2

\* settings.secret_key, a value of the deployment.
secret_key == <<"s", "e", "c", "r", "e", "t">>

\* The keyed digest: a polynomial of the key's and the message's bytes over
\* a prime field, spread over DigestLen bytes.  Two messages of the same
\* length that differ in one byte have different digests.
HashField == [p |-> 32749, b |-> 257]
RECURSIVE PowMod(_)
PowMod(n) ==
    IF n = 0 THEN 1
    ELSE LET half == PowMod(n \div 2)
             sq == (half * half) % HashField.p
         IN  IF n % 2 = 1 THEN (sq * HashField.b) % HashField.p ELSE sq
RECURSIVE PolyHash(_)
PolyHash(bytes) ==
    IF bytes = <<>> THEN 0
    ELSE IF Len(bytes) = 1 THEN bytes[1] + 1
    ELSE LET mid == Len(bytes) \div 2
             right == SubSeq(bytes, mid + 1, Len(bytes))
         IN  (PolyHash(SubSeq(bytes, 1, mid)) * PowMod(Len(right)) + PolyHash(right))
                 % HashField.p
DigestOf(h) ==
    [j \in 1..DigestLen |->
        IF j = 1 THEN h % 256 ELSE IF j = 2 THEN h \div 256 ELSE (h * j) % 256]
\* hmac.new(key, msg, hashlib.sha256).digest().
hmac_sha256(key, msg) == DigestOf(PolyHash(utf8_encode(key) \o msg))

\* base64.urlsafe_b64encode / urlsafe_b64decode: the standard codec, with
\* "+" and "/" written "-" and "_".
urlsafe_b64encode(bytes) ==
    LET text == b64encode(bytes)
    IN  [i \in DOMAIN text |->
            IF text[i] = "+" THEN "-" ELSE IF text[i] = "/" THEN "_" ELSE text[i]]
urlsafe_b64decode(text) ==
    b64decode([i \in DOMAIN text |->
                  IF text[i] = "-" THEN "+" ELSE IF text[i] = "_" THEN "/" ELSE text[i]])

\* The keys of the token's data, and the byte that joins data and signature.
FilePathKey == <<"f", "i", "l", "e", "_", "p", "a", "t", "h">>
FilenameKey == <<"f", "i", "l", "e", "n", "a", "m", "e">>
ExpiresKey == <<"e", "x", "p", "i", "r", "e", "s">>
TimestampKey == <<"t", "i", "m", "e", "s", "t", "a", "m", "p">>
Separator == AsciiCode("|")

\* The bytes create_download_token signs and the bytes of the token.
TokenData(file_path, filename, time) ==
    JObj(<< <<FilePathKey, JStr(file_path)>>, <<FilenameKey, JStr(filename)>>,
            <<ExpiresKey, JInt(time + TokenTtl)>>, <<TimestampKey, JInt(time)>> >>)

\* TokenManager.create_download_token(file_path, filename), at time now.
create_download_token(file_path, filename) ==
    LET data_bytes == utf8_encode(json_dumps(TokenData(file_path, filename, now)))
        signature == hmac_sha256(secret_key, data_bytes)
    IN  urlsafe_b64encode(data_bytes \o <<Separator>> \o signature)

\* What validate_token returns: None, or the token's data.
None == [none |-> TRUE, data |-> NoJson]
Some(data) == [none |-> FALSE, data |-> data]

\* TokenManager.validate_token(token), at time now.  Every exception ends in
\* None.
validate_token(token) ==
    LET decoded == urlsafe_b64decode(token)
        token_bytes == decoded.data
        cut == FirstIn(token_bytes, 1, {Separator})
        data_bytes == SubSeq(token_bytes, 1, cut - 1)
        signature == SubSeq(token_bytes, cut + 1, Len(token_bytes))
        text == utf8_decode(data_bytes)
        parsed == json_loads(text.chars)
        expires_time == IF HasKey(parsed.val, ExpiresKey)
                        THEN Lookup(parsed.val, ExpiresKey) ELSE JInt(0)
    IN  IF ~decoded.ok THEN None
        ELSE IF cut > Len(token_bytes) THEN None
        ELSE IF signature # hmac_sha256(secret_key, data_bytes) THEN None
        ELSE IF ~text.ok THEN None
        ELSE IF ~parsed.ok THEN None
        ELSE IF parsed.val.type # "obj" THEN None
        ELSE IF expires_time.type # "int" THEN None
        ELSE IF expires_time.v < now THEN None
        ELSE Some(parsed.val)

\* The paths and names tokens are created for.
TokenInputs ==
    {<< <<"/", "t", "/", "a">>, name >> :
        name \in {<<"a">>, <<"a", ".", "b">>, <<"a", "|", "b">>, <<"é", "\"">>}}
    \cup {<< <<"/", "t", "|", "/", "a">>, <<"a">> >>}

\* The instants at which something happens.
Instants == {StartTime, StartTime + 1, StartTime + TokenTtl, StartTime + TokenTtl + 1}

TokenIdle ==
    /\ tPc = "idle"
    /\ now = StartTime
    /\ tToken = <<>>
    /\ tPath = <<>>
    /\ tName = <<>>
    /\ tIssued = 0
    /\ tChanged = 0
    /\ tFile = FALSE
    /\ tResult = None
    /\ tLog = <<>>

\* tasks.py lines 95-102: the worker has written the encrypted file and
\* creates its download token.
CreateToken ==
    /\ tPc = "idle"
    /\ \E input \in TokenInputs :
       \E token \in {create_download_token(input[1], input[2])} :
         /\ tPath' = input[1]
         /\ tName' = input[2]
         /\ tToken' = token
    /\ tIssued' = now
    /\ tFile' = TRUE
    /\ tPc' = "issued"
    /\ UNCHANGED <<now, tChanged, tResult, tLog>>
    /\ UNCHANGED <<streamVars, taskVars, libVars, envVars, snapshot>>

\* Time passes.
Tick ==
    /\ tPc = "issued"
    /\ \E t \in Instants : t > now /\ now' = t
    /\ UNCHANGED <<tPc, tToken, tPath, tName, tIssued, tChanged, tFile, tResult, tLog>>
    /\ UNCHANGED <<streamVars, taskVars, libVars, envVars, snapshot>>

\* The environment: the client's token differs from the issued one in one
\* byte of its data or of its signature.
TamperToken ==
    /\ tPc = "issued"
    /\ tChanged = 0
    /\ tLog = <<>>
    /\ \E token_bytes \in {urlsafe_b64decode(tToken).data} :
       \E i \in (1..Len(token_bytes)) \ {Len(token_bytes) - DigestLen} :
       \E byte \in {(token_bytes[i] + 1) % 256, Separator} \ {token_bytes[i]} :
         /\ tToken' = urlsafe_b64encode([token_bytes EXCEPT ![i] = byte])
         /\ tChanged' = i
    /\ UNCHANGED <<tPc, now, tPath, tName, tIssued, tFile, tResult, tLog>>
    /\ UNCHANGED <<streamVars, taskVars, libVars, envVars, snapshot>>

\* The environment: the encrypted file is removed (cleanup_old_files, or
\* cleanup_task_files after a cancel request).
RemoveFile ==
    /\ tPc = "issued"
    /\ tFile
    /\ tFile' = FALSE
    /\ UNCHANGED <<tPc, now, tToken, tPath, tName, tIssued, tChanged, tResult, tLog>>
    /\ UNCHANGED <<streamVars, taskVars, libVars, envVars, snapshot>>

\* app/routes/download.py, download_file(token): 400 when validate_token
\* returns None, 404 when the file is gone, the file otherwise.  Nothing is
\* recorded about the token.
Download ==
    /\ tPc = "issued"
    /\ Len(tLog) < MaxDownloads
    /\ \E token_data \in {validate_token(tToken)} :
         /\ tResult' = token_data
         /\ tLog' = Append(tLog, IF token_data.none THEN 400
                                 ELSE IF ~tFile THEN 404 ELSE 200)
    /\ UNCHANGED <<tPc, now, tToken, tPath, tName, tIssued, tChanged, tFile>>
    /\ UNCHANGED <<streamVars, taskVars, libVars, envVars, snapshot>>

TokenNext == CreateToken \/ Tick \/ TamperToken \/ RemoveFile \/ Download

(***************************************************************************)
(* E4PContainer called on its own.                                         *)
(***************************************************************************)
\* Base64 of RFC 4648: quads of alphabet characters, the last one possibly
\* ending in one or two padding characters.
IsValidBase64(text) ==
    /\ Len(text) % 4 = 0
    /\ \A i \in DOMAIN text :
         \/ IsB64Char(text[i])
         \/ /\ text[i] = B64Pad
            /\ i >= Len(text) - 1
            /\ \A j \in (i + 1)..Len(text) : text[j] = B64Pad

\* Strings for the salt and nonce fields: encodings, and strings that are
\* not base64.
GoodB64Texts == {b64encode(BytesOf(generate_salt)),
                 b64encode(BytesOf([len |-> NonceLenAES, id |-> 1])),
                 Chars("salt") \o Chars("salt")}
BadB64Texts == {<<"!", "!", "!", "!">>,
                <<"Y", "W", "J", "j", "*">>,
                <<"A", "A", "A">>,
                <<"A", "A", "=", "=", "A", "A", "A", "A">>,
                Chars("input") \o <<"_">> \o Chars("salt") \o <<"!">>}
B64Texts == GoodB64Texts \cup BadB64Texts

AlgTexts == {Chars(AES), Chars(XCHACHA), Chars("DES"), <<>>}
KdfTexts == {Chars("argon2id"), Chars("scrypt")}
TimeCosts == {0, 1, Argon2TimeCost}
NameTexts == {Chars("input"), <<"a", "\"", "b", "\\", "é">>, <<>>}
SizeInputs == {MaxFileSizeBytes, MaxFileSizeBytes + 1}

\* The headers create_header builds under the default settings, for some
\* original sizes within the maximum.
CreatedHeaders ==
    {create_header(alg, generate_salt, [len |-> NonceSize(alg), id |-> k], name, size) :
        alg \in Algorithms, k \in 1..MaxNonceId, name \in NameTexts,
        size \in {0, 1, MaxFileSizeBytes}}

HeaderInputs ==
    {HeaderWith(alg, kdf, Argon2MemoryMb * 1024, t, Argon2Parallelism, salt,
                b64encode(BytesOf([len |-> NonceLenAES, id |-> 1])), Chars("input"), size) :
        alg \in AlgTexts, kdf \in KdfTexts, t \in TimeCosts, salt \in B64Texts,
        size \in SizeInputs}
    \cup {HeaderWith(Chars(AES), Chars("argon2id"), m, Argon2TimeCost, p,
                     b64encode(BytesOf(generate_salt)), nonce, name, size) :
            m \in {MinMemoryKb - 1, MinMemoryKb}, p \in {0, 1}, nonce \in B64Texts,
            name \in {Chars("input")}, size \in {0 - 1, 0}}
    \cup CreatedHeaders

NoRead == Raises("None")

ContainerIdle ==
    /\ cPc = "idle"
    /\ cHeader = NoHeader
    /\ cData = <<>>
    /\ cTrail = 0
    /\ cValid = FALSE
    /\ cRead = NoRead
    /\ cInfo = NoInfo

\* container.validate_header(header).
ValidateHeader ==
    /\ cPc = "header"
    /\ cValid' = validate_header(cHeader)
    /\ cPc' = "validated"
    /\ UNCHANGED <<cHeader, cData, cTrail, cRead, cInfo>>
    /\ UNCHANGED <<streamVars, taskVars, aeadVars, envVars, svcVars>>

\* The bytes that follow a serialized header in a buffer.
Trailings == {<<>>, <<123, 255>>}

\* container.serialize_header(header), the result followed by other bytes.
SerializeHeader ==
    /\ cPc = "header"
    /\ \E trailing \in Trailings :
         /\ cData' = serialize_header(cHeader) \o trailing
         /\ cTrail' = Len(trailing)
    /\ cPc' = "serialized"
    /\ UNCHANGED <<cHeader, cValid, cRead, cInfo>>
    /\ UNCHANGED <<streamVars, taskVars, aeadVars, envVars, svcVars>>

\* container.deserialize_header(data), for the serialized header or for a
\* buffer of any origin.
DeserializeHeader ==
    /\ cPc \in {"serialized", "buffer"}
    /\ cRead' = deserialize_header(cData)
    /\ cPc' = IF cPc = "serialized" THEN "parsed" ELSE "scanned"
    /\ UNCHANGED <<cHeader, cData, cTrail, cValid, cInfo>>
    /\ UNCHANGED <<streamVars, taskVars, aeadVars, envVars, svcVars>>

\* get_file_info for a file that holds the buffer.
InspectBuffer ==
    /\ cPc = "buffer"
    /\ \E result \in {get_file_info(cData)} : cInfo' = result
    /\ cPc' = "inspected"
    /\ UNCHANGED <<cHeader, cData, cTrail, cValid, cRead>>
    /\ UNCHANGED <<streamVars, taskVars, aeadVars, envVars, svcVars>>

\* Buffers: a serialized header, and buffers that differ from one.
GoodBuffer ==
    serialize_header(create_header(AES, generate_salt, [len |-> NonceLenAES, id |-> 1],
                                   Chars("input"), 1))
GoodJson == SubSeq(GoodBuffer, 9, Len(GoodBuffer))
\* MAGIC, the length of the text, the text.
Framed(text) == E4P_MAGIC \o pack_u32_le(Len(text)) \o text
\* The JSON of a header without its last member ("ts").
JsonWithoutTs ==
    LET members == to_dict(create_header(AES, generate_salt,
                                         [len |-> NonceLenAES, id |-> 1],
                                         Chars("input"), 1)).v
    IN  utf8_encode(json_dumps(JObj(SubSeq(members, 1, Len(members) - 1))))

ShortBuffers == {<<>>, E4P_MAGIC, SubSeq(GoodBuffer, 1, 7)}
BadMagicBuffers ==
    {<<69, 52, 80, 50>> \o SubSeq(GoodBuffer, 5, Len(GoodBuffer)),
     <<101, 52, 112, 49>> \o SubSeq(GoodBuffer, 5, Len(GoodBuffer)),
     [i \in 1..8 |-> 0]}
LongLengthBuffers ==
    {E4P_MAGIC \o pack_u32_le(5) \o <<123, 125>>,
     E4P_MAGIC \o <<0, 0, 1, 0>> \o <<123, 125>>,
     E4P_MAGIC \o <<0, 0, 0, 1>> \o GoodJson,
     SubSeq(GoodBuffer, 1, Len(GoodBuffer) - 1),
     E4P_MAGIC \o pack_u32_le(1)}
BadJsonBuffers ==
    {Framed(<<>>), Framed(<<123>>), Framed(<<97, 98, 99>>), Framed(<<255>>),
     Framed(<<195>>), Framed(<<34, 10, 34>>),
     Framed(SubSeq(GoodJson, 1, Len(GoodJson) - 1)),
     Framed(SubSeq(GoodJson, 1, Len(GoodJson) \div 2)),
     Framed(GoodJson \o <<125>>),
     Framed(<<123>> \o utf8_encode(<<"\"">> \o Chars("alg") \o <<"\"", ":", "}">>))}
PartialJsonBuffers ==
    {Framed(<<123, 125>>),
     Framed(utf8_encode(json_dumps(JObj(<< <<Chars("alg"), JStr(Chars(AES))>> >>)))),
     Framed(JsonWithoutTs),
     Framed(<<49>>),
     Framed(utf8_encode(json_dumps(JStr(Chars("alg")))))}
GoodBuffers == {GoodBuffer \o trailing : trailing \in Trailings}

BufferInputs == ShortBuffers \cup BadMagicBuffers \cup LongLengthBuffers
                \cup BadJsonBuffers \cup PartialJsonBuffers \cup GoodBuffers

\* One call sequence on E4PContainer: a header or a buffer is at hand.
ContainerStart ==
    /\ cTrail = 0
    /\ cValid = FALSE
    /\ cRead = NoRead
    /\ cInfo = NoInfo
    /\ \/ cPc = "header" /\ cHeader \in HeaderInputs /\ cData = <<>>
       \/ cPc = "buffer" /\ cHeader = NoHeader /\ cData \in BufferInputs

ContainerNext == ValidateHeader \/ SerializeHeader \/ DeserializeHeader \/ InspectBuffer

(***************************************************************************)
(* app/crypto/aead.py called on its own.                                    *)
(***************************************************************************)
AeadIdle ==
    /\ aPc = "idle"
    /\ aAlgorithm = AES
    /\ aKey = NoKey
    /\ aNonce = NoNonce
    /\ aData = <<>>
    /\ aOut = Failure

\* Keys of several lengths, 32 among them; nonces of several lengths, 12 and
\* 24 among them.
KeyLens == {0, 16, 31, 32, 33, 64}
NonceLens == {0, NonceLenAES - 1, NonceLenAES, NonceLenAES + 1,
              NonceLenXChaCha - 1, NonceLenXChaCha, NonceLenXChaCha + 1}
KeyInputs == {[derive_key("pwA", generate_salt) EXCEPT !.len = n] : n \in KeyLens}
NonceInputs == {[len |-> n, id |-> 1] : n \in NonceLens}
AlgorithmInputs == Algorithms \cup {"DES", ""}
\* Chunks: plaintexts, and the records of a plaintext under the 32-byte key
\* and the nonce of the right length.
ChunkInputs ==
    {PlainOf(n) : n \in {0, 1, 3}}
    \cup {encrypt_chunk(alg, derive_key("pwA", generate_salt), PlainOf(3),
                        [len |-> NonceSize(alg), id |-> 1]).data : alg \in Algorithms}

AeadStart ==
    /\ aPc = "args"
    /\ aAlgorithm \in AlgorithmInputs
    /\ aKey \in KeyInputs
    /\ aNonce \in NonceInputs
    /\ aData \in ChunkInputs
    /\ aOut = Failure

\* create_encryptor(algorithm, key): an encryptor, or ValueError.
CreateEncryptor ==
    /\ aPc = "args"
    /\ aPc' = IF create_encryptor_ok(aAlgorithm, aKey) THEN "constructed" ELSE "refused"
    /\ UNCHANGED <<aAlgorithm, aKey, aNonce, aData, aOut>>
    /\ UNCHANGED <<streamVars, taskVars, containerVars, envVars, svcVars>>

\* encryptor.encrypt_chunk(data, nonce).
EncryptChunkCall ==
    /\ aPc = "constructed"
    /\ aOut' = encrypt_chunk(aAlgorithm, aKey, aData, aNonce)
    /\ aPc' = "encrypted"
    /\ UNCHANGED <<aAlgorithm, aKey, aNonce, aData>>
    /\ UNCHANGED <<streamVars, taskVars, containerVars, envVars, svcVars>>

\* encryptor.decrypt_chunk(data, nonce).
DecryptChunkCall ==
    /\ aPc = "constructed"
    /\ aOut' = decrypt_chunk(aAlgorithm, aKey, aData, aNonce)
    /\ aPc' = "decrypted"
    /\ UNCHANGED <<aAlgorithm, aKey, aNonce, aData>>
    /\ UNCHANGED <<streamVars, taskVars, containerVars, envVars, svcVars>>

AeadNext == CreateEncryptor \/ EncryptChunkCall \/ DecryptChunkCall

(***************************************************************************)
(* Specifications.                                                         *)
(***************************************************************************)
\* get_task_status has not been called.
NoSnapshot ==
    [called |-> FALSE, none |-> TRUE, task_id |-> 0, status |-> "None", progress |-> Zero,
     files |-> <<>>, completed_at |-> "None", error_message |-> "None"]

SvcInit == TokenIdle /\ snapshot = NoSnapshot

Init == EnvInit /\ StreamInit /\ TaskInit /\ ContainerIdle /\ AeadIdle /\ SvcInit

Next == StreamNext \/ TaskNext

\* The whole program.
Spec == Init /\ [][Next]_vars

\* One encrypt_file call followed by one decrypt_file call.
StreamSpec == Init /\ [][StreamNext]_vars

\* The job pipeline.
TaskSpec == Init /\ [][TaskNext]_vars

\* A container written under one configuration and read under another.
ConfigSpec == Init /\ [][ConfigNext]_vars

\* decrypt_file applied to files of any origin.
UploadSpec == Init /\ [][UploadNext]_vars

\* A container whose records were reordered or cut off before it is read.
DamageSpec == Init /\ [][DamageNext]_vars

\* The job pipeline with status requests between the worker's steps.
StatusNext == TaskNext \/ GetTaskStatus
StatusSpec == Init /\ [][StatusNext]_vars

\* One download token: created, presented, possibly changed on the way.
TokenSpec == Init /\ [][TokenNext]_vars

\* E4PContainer's methods, each applied to a header or a buffer.
ContainerInit ==
    EnvInit /\ StreamInit /\ TaskInit /\ ContainerStart /\ AeadIdle /\ SvcInit
ContainerSpec == ContainerInit /\ [][ContainerNext]_vars

\* create_encryptor and one call of the encryptor, for each choice of
\* arguments.
AeadInit ==
    EnvInit /\ StreamInit /\ TaskInit /\ ContainerIdle /\ AeadStart /\ SvcInit
AeadSpec == AeadInit /\ [][AeadNext]_vars

\* The job pipeline with the event loop's scheduling: the worker coroutine,
\* once it can run (an item in the queue, an awaited file operation done),
\* is eventually resumed.
TaskFairSpec ==
    /\ TaskSpec
    /\ WF_vars(WorkerTake)
    /\ WF_vars(WorkerOpenOut)
    /\ WF_vars(WorkerOpenIn)
    /\ WF_vars(WorkerFinishFile)

(***************************************************************************)
(* Properties of the streaming engine, under StreamSpec.                   *)
(***************************************************************************)
\* decrypt_file has returned, for the container as encrypt_file wrote it.
ReturnedUntampered == sPc = "returned" /\ tampered = 0

\* C1: round trip.  For every plaintext length and both algorithms,
\* decrypt_file with the password given to encrypt_file returns True and
\* writes output bytes identical to the plaintext.
C1_RoundTrip ==
    (ReturnedUntampered /\ dPassword = password)
        => (dResult = "True" /\ outExists /\ outBytes = plain)

\* C2: wrong password.  For every plaintext length (0 bytes included) and
\* both algorithms, decrypt_file with a password other than the one given to
\* encrypt_file returns False and writes no plaintext.
C2_WrongPasswordFails ==
    (ReturnedUntampered /\ dPassword # password)
        => (dResult = "False" /\ outBytes = <<>>)

\* The byte that was flipped, as it was before.
TamperedByte == payload[tampered][2]
\* The flipped byte belongs to a record's ciphertext or tag.
TamperedCtOrTag == tampered # 0 /\ TamperedByte[1] \in {"c", "t"}
\* The record the flipped byte belongs to, and the offset at which it starts.
TamperedRecord == CHOOSE r \in 1..Len(recEnds) :
                      /\ tampered <= recEnds[r]
                      /\ \A q \in 1..(r - 1) : recEnds[q] < tampered
RecordStart(r) == IF r = 1 THEN 0 ELSE recEnds[r - 1]
\* How many plaintext bytes the records before record r hold.
PlainBefore(r) == Min((r - 1) * ChunkSize, Len(plain))

\* C3: tamper detection.  With one bit of some record's ciphertext or tag
\* flipped, decrypt_file with the correct password decrypts and writes
\* neither the tampered record nor any record after it, and returns False.
C3_TamperDetected ==
    (TamperedCtOrTag /\ sPc \in {"decrypting", "returned"} /\ dPassword = password)
        => /\ dPos <= RecordStart(TamperedRecord)
           /\ Len(outBytes) <= PlainBefore(TamperedRecord)
           /\ sPc = "returned" => dResult = "False"

\* C3, its case: the only record of a container that one read covers was
\* tampered with, and decrypt_file with the correct password returned False.
C3_Witness ==
    /\ TamperedCtOrTag
    /\ sPc = "returned"
    /\ dPassword = password
    /\ Len(recEnds) = 1
    /\ Len(payload) <= ChunkSize
    /\ dResult = "False"

\* C4: no partial output.  Whenever decrypt_file returns False, its output
\* path does not exist.
C4_NoPartialOutput ==
    (sPc = "returned" /\ dResult = "False") => ~outExists

\* C5: nonce uniqueness.  No two encrypt_chunk calls of one encrypt_file
\* call are given the same nonce: for n chunks, n distinct nonces.
C5_NonceUnique ==
    Cardinality({nonceLog[i] : i \in DOMAIN nonceLog}) = Len(nonceLog)

(***************************************************************************)
(* Properties of the job pipeline, under TaskSpec.                         *)
(***************************************************************************)
TaskIds == DOMAIN tasks
Processing == {t \in TaskIds : tasks[t].status = PROCESSING}
InQueue(t) == \E k \in DOMAIN queue : queue[k] = t
TotalFiles(t) == Len(tasks[t].files)

\* C6: concurrency bound.  At most MaxConcurrency jobs are processing.
C6_ConcurrencyBound == Cardinality(Processing) <= MaxConcurrency

\* C6, its case: more jobs than the limit were submitted; one is processing
\* and the others wait in the queue.
C6_Witness ==
    /\ Len(tasks) > MaxConcurrency
    /\ Cardinality(Processing) = 1
    /\ Len(queue) = Len(tasks) - 1

\* C7: job state machine.  A job's status changes only from pending to
\* processing and from processing to completed or failed; a completed or
\* failed job's status never changes again.
C7_StateMachine ==
    [][\A t \in TaskIds :
         tasks'[t].status # tasks[t].status
            => <<tasks[t].status, tasks'[t].status>>
                   \in {<<PENDING, PROCESSING>>, <<PROCESSING, COMPLETED>>,
                        <<PROCESSING, FAILED>>}]_vars

\* The second half of C7 alone: completed and failed are absorbing.
C7_TerminalAbsorbing ==
    [][\A t \in TaskIds :
         tasks[t].status \in {COMPLETED, FAILED}
            => tasks'[t].status = tasks[t].status]_vars

\* C8: FIFO admission.  While a job is pending, no job created after it has
\* been admitted: each is still in the queue, and neither processing nor
\* completed.
C8_FifoAdmission ==
    \A a \in TaskIds : \A b \in TaskIds :
        (a < b /\ tasks[a].status = PENDING)
            => /\ InQueue(b)
               /\ wTask # b
               /\ tasks[b].status \notin {PROCESSING, COMPLETED}

\* C8, its case: three jobs were submitted; the first is done, the second is
\* processing, the third still pending.
C8_Witness ==
    /\ Len(tasks) >= 3
    /\ tasks[1].status = COMPLETED
    /\ tasks[2].status = PROCESSING
    /\ tasks[3].status = PENDING

\* C9 as claimed: progress is the fraction processed_files / total_files,
\* within [0.0, 1.0]; 0 before any file completed, 1.0 once all completed.
C9_ProgressFraction ==
    \A t \in TaskIds :
        LET pr == tasks[t].progress
            one == [n |-> 1, d |-> 1]
        IN  /\ RatEq(pr, [n |-> processedOf[t], d |-> TotalFiles(t)])
            /\ RatLe(Zero, pr) /\ RatLe(pr, one)
            /\ processedOf[t] = 0 => RatEq(pr, Zero)
            /\ processedOf[t] = TotalFiles(t) => RatEq(pr, one)

\* C9 as amended: progress is the percentage
\* (processed_files / total_files) * 100, within [0.0, 100.0]; 0 before any
\* file completed, 100.0 once all completed.
C9_ProgressPercent ==
    \A t \in TaskIds :
        LET pr == tasks[t].progress
            hundred == [n |-> 100, d |-> 1]
        IN  /\ RatEq(pr, [n |-> 100 * processedOf[t], d |-> TotalFiles(t)])
            /\ RatLe(Zero, pr) /\ RatLe(pr, hundred)
            /\ processedOf[t] = 0 => RatEq(pr, Zero)
            /\ processedOf[t] = TotalFiles(t) => RatEq(pr, hundred)

\* C9, its case: a job of two files with one file completed (50 percent),
\* and a job with all of its files completed.
C9_Witness ==
    /\ \E t \in TaskIds : TotalFiles(t) = 2 /\ processedOf[t] = 1
                          /\ RatEq(tasks[t].progress, [n |-> 50, d |-> 1])
    /\ \E t \in TaskIds : processedOf[t] = TotalFiles(t)

\* The job whose i-th file raised: what holds of it from then on.
FailedAtFile(t, i) ==
    /\ tasks[t].status = FAILED
    /\ tasks[t].error_message = raisedOf[t].error
    /\ RatEq(tasks[t].progress, ProgressOf(i - 1, TotalFiles(t)))
    /\ wTask # t
    /\ ~InQueue(t)
    /\ \A j \in 1..TotalFiles(t) : tasks[t].files[j].header <=> j < i

SomeJobRaised == \E t \in TaskIds : raisedOf[t].file # 0
\* The worker has taken job u and is done with it.
Processed(u) ==
    /\ u \in TaskIds
    /\ ~InQueue(u)
    /\ wTask # u
    /\ tasks[u].status \in {COMPLETED, FAILED}

\* C11: failure isolation.  The step in which a job's encryption raises
\* changes no other job's record, leaves every other queued job in the
\* queue, and ends with the semaphore released and the worker back in
\* queue.get; and every job that is queued when some job has failed is
\* eventually taken by the worker and brought to an end.
C11_FailureIsolation ==
    /\ [][\A t \in TaskIds :
            (raisedOf[t].file = 0 /\ raisedOf'[t].file # 0)
               => /\ \A u \in TaskIds \ {t} :
                        /\ tasks'[u] = tasks[u]
                        /\ InQueue(u) => \E k \in DOMAIN queue' : queue'[k] = u
                  /\ wPc' = "idle"
                  /\ semaphore' = MaxConcurrency]_vars
    /\ \A u \in 1..MaxTasks :
          (u \in TaskIds /\ InQueue(u) /\ SomeJobRaised) ~> Processed(u)

\* C11, its case: a job's encryption raised, and a job created after it has
\* been completed.
C11_Witness ==
    \E t \in TaskIds : \E u \in TaskIds :
        /\ t < u
        /\ raisedOf[t].file # 0
        /\ tasks[t].status = FAILED
        /\ tasks[u].status = COMPLETED

\* cancel_task's error message.
CancelledByUser == "Task cancelled by user"
\* Job t was cancelled while the worker was in it, and the worker still is.
CancelledInProcessing(t) ==
    /\ wTask = t
    /\ tasks[t].status = FAILED
    /\ tasks[t].error_message = CancelledByUser

\* C12: cancellation.  A cancel request on a processing job leaves it failed
\* with the cancellation as its error; from then on the worker starts no
\* further file of the job, and no step changes the job's status or its
\* cancellation error.
C12_Cancellation ==
    /\ [][\A t \in TaskIds :
            (tasks[t].status = PROCESSING /\ wTask = t /\ wTask' = t
             /\ tasks'[t].status = FAILED)
               => tasks'[t].error_message = CancelledByUser]_vars
    /\ [][\A t \in TaskIds :
            CancelledInProcessing(t)
               => /\ tasks'[t].status = FAILED
                  /\ tasks'[t].error_message = CancelledByUser
                  /\ wFile' \in {wFile, 0}]_vars

\* The first part of C12 alone: what the cancel request itself does.
C12_CancelRecorded ==
    [][\A t \in TaskIds :
         (tasks[t].status = PROCESSING /\ wTask = t /\ wTask' = t
          /\ tasks'[t].status = FAILED)
            => tasks'[t].error_message = CancelledByUser]_vars

\* The worker starts no further file of a job cancelled in processing.
C12_NoFurtherFile ==
    [][\A t \in TaskIds : CancelledInProcessing(t) => wFile' \in {wFile, 0}]_vars

\* The status of a job cancelled in processing is not overwritten.
C12_StatusKept ==
    [][\A t \in TaskIds : CancelledInProcessing(t) => tasks'[t].status = FAILED]_vars

(***************************************************************************)
(* Properties of the header codec, under ContainerSpec.                     *)
(***************************************************************************)
\* The reasons C13 names for which a header must be refused, the base64
\* one apart.
RefusedField(header) ==
    \/ Lookup(header.kdf_params, Chars("t")).v = 0
    \/ header.algorithm.v \notin {Chars(AES), Chars(XCHACHA)}
    \/ header.kdf.v # Chars("argon2id")
    \/ header.original_size.v > MaxFileSizeBytes

\* C13: header validation.  validate_header returns False for every header
\* whose time cost is 0, whose algorithm is not one of the two supported,
\* whose kdf is not argon2id, whose salt or nonce is not valid base64, or
\* whose orig_size exceeds the maximum; it returns True for every header
\* that create_header builds under the default settings with an original
\* size within the maximum.
C13_HeaderValidation ==
    (cPc = "validated") =>
        /\ (\/ RefusedField(cHeader)
            \/ ~IsValidBase64(cHeader.salt.v)
            \/ ~IsValidBase64(cHeader.nonce.v)) => cValid = FALSE
        /\ (cHeader \in CreatedHeaders => cValid = TRUE)

\* The part of C13 that does not concern base64.
C13_FieldsAndDefaults ==
    (cPc = "validated") =>
        /\ (RefusedField(cHeader) => cValid = FALSE)
        /\ (cHeader \in CreatedHeaders => cValid = TRUE)

\* Strings that are not base64 and that validate_header refuses all the same.
C13_UndecodableRefused ==
    (cPc = "validated" /\ (~b64decode_ok(cHeader.salt.v) \/ ~b64decode_ok(cHeader.nonce.v)))
        => cValid = FALSE

\* The bytes of the buffer that serialize_header produced.
SerializedPart == SubSeq(cData, 1, Len(cData) - cTrail)
\* The JSON bytes in it.
JsonPart == SubSeq(SerializedPart, 9, Len(SerializedPart))

\* C14: header codec round trip.  For every header h, serialize_header(h)
\* is MAGIC, then the JSON byte length as a 4-byte little-endian unsigned
\* integer, then the JSON of h; deserialize_header of those bytes, also with
\* other bytes after them, returns a header equal to h in every field and
\* bytes_consumed = 8 + the JSON length = the length of the serialized
\* header.
C14_CodecRoundTrip ==
    /\ (cPc \in {"serialized", "parsed"}) =>
          /\ SubSeq(SerializedPart, 1, 4) = E4P_MAGIC
          /\ cData[5] = Len(JsonPart) % 256
          /\ cData[6] = (Len(JsonPart) \div 256) % 256
          /\ cData[7] = (Len(JsonPart) \div 65536) % 256
          /\ cData[8] = Len(JsonPart) \div 16777216
          /\ json_loads(utf8_decode(JsonPart).chars) = JOk(to_dict(cHeader), Len(JsonPart) + 1)
    /\ (cPc = "parsed") =>
          /\ cRead.ok
          /\ cRead.header = cHeader
          /\ cRead.consumed = 8 + Len(JsonPart)
          /\ cRead.consumed = Len(SerializedPart)

C14_Witness ==
    /\ cPc = "parsed"
    /\ cTrail > 0
    /\ cHeader.original_name.v = <<"a", "\"", "b", "\\", "é">>
    /\ cRead.ok
    /\ cRead.header = cHeader
    /\ cRead.consumed = Len(cData) - cTrail

\* The ways in which a buffer is not a serialized header.
TooShort(data) == Len(data) < 8
WrongMagic(data) == ~TooShort(data) /\ SubSeq(data, 1, 4) # E4P_MAGIC
Framing(data) == ~TooShort(data) /\ ~WrongMagic(data)
\* The declared length, when it is below 2^16.
DeclaredLength(data) == data[5] + 256 * data[6]
LengthExceeds(data) ==
    /\ Framing(data)
    /\ \/ data[7] > 0
       \/ data[8] > 0
       \/ DeclaredLength(data) > Len(data) - 8
JsonText(data) == utf8_decode(SubSeq(data, 9, 8 + DeclaredLength(data)))
JsonUnparseable(data) ==
    /\ Framing(data) /\ ~LengthExceeds(data)
    /\ ~JsonText(data).ok \/ ~json_loads(JsonText(data).chars).ok
\* The JSON is a document, but not a whole header: a member is missing, or
\* it is not an object at all.
JsonIncomplete(data) ==
    /\ Framing(data) /\ ~LengthExceeds(data) /\ ~JsonUnparseable(data)
    /\ LET value == json_loads(JsonText(data).chars).val
       IN  value.type # "obj" \/ \E key \in HeaderKeys : ~HasKey(value, key)

\* C15: malformed header rejection.  deserialize_header returns no header
\* and fails with one and the same error kind (ValueError, of which
\* json.JSONDecodeError and UnicodeDecodeError are kinds) when the buffer is
\* shorter than 8 bytes, when its first 4 bytes are not the magic, when the
\* declared length exceeds the bytes available, and when the header JSON is
\* not parseable or not complete.
C15_MalformedRejected ==
    (/\ cPc = "scanned"
     /\ \/ TooShort(cData) \/ WrongMagic(cData) \/ LengthExceeds(cData)
        \/ JsonUnparseable(cData) \/ JsonIncomplete(cData))
    => ~cRead.ok /\ cRead.error = "ValueError"

\* The cases of C15 in which the error is a ValueError.
C15_ValueErrorCases ==
    (/\ cPc = "scanned"
     /\ \/ TooShort(cData) \/ WrongMagic(cData) \/ LengthExceeds(cData)
        \/ JsonUnparseable(cData))
    => ~cRead.ok /\ cRead.error = "ValueError"

\* In every case of C15 no header is returned.
C15_NoHeader ==
    (/\ cPc = "scanned"
     /\ \/ TooShort(cData) \/ WrongMagic(cData) \/ LengthExceeds(cData)
        \/ JsonUnparseable(cData) \/ JsonIncomplete(cData))
    => ~cRead.ok /\ cRead.header = Raises("None").header

(***************************************************************************)
(* Properties of the container's records, under StreamSpec.                 *)
(***************************************************************************)
CeilDiv(a, b) == (a + b - 1) \div b
\* Record r of the payload, and plaintext chunk r.
Record(r) == SubSeq(payload, RecordStart(r) + 1, recEnds[r])
PlainChunk(r) == SubSeq(plain, (r - 1) * ChunkSize + 1, Min(r * ChunkSize, Len(plain)))
\* The bytes the next read of decrypt_file's loop returns.
NextRead == SubSeq(payload, dPos + 1, Min(dPos + ChunkSize, Len(payload)))

\* encrypt_file has written one header followed by ceil(S / C) records, the
\* record of each plaintext chunk in plaintext order, and nothing else.
C16_RecordsWritten ==
    (sPc \in {"stored", "decrypting", "returned"} /\ tampered = 0)
    => /\ sPc = "stored" => fileHead = serialize_header(outHeader)
       /\ Len(recEnds) = CeilDiv(Len(plain), ChunkSize)
       /\ Len(plain) = 0 => payload = <<>>
       /\ Len(plain) = 3 * ChunkSize => Len(recEnds) = 3
       /\ \A r \in DOMAIN recEnds :
            Record(r) = encrypt_chunk(algorithm, encKey, PlainChunk(r), nonceLog[r]).data
       /\ Len(payload) = RecordStart(Len(recEnds) + 1)

\* Each read of decrypt_file's loop returns exactly the next record, and
\* the empty read comes when every record has been consumed.
C16_RecordsConsumed ==
    (sPc = "decrypting")
    => IF dReads < Len(recEnds)
       THEN dPos = RecordStart(dReads + 1) /\ Len(NextRead) = Len(Record(dReads + 1))
       ELSE dPos = Len(payload)

\* C16: chunk record count.  encrypt_file over a plaintext of size S with
\* chunk size C writes one header followed by exactly ceil(S / C) chunk
\* records in plaintext order (3 records for S = 3 C, none for an empty
\* file), and decrypt_file consumes exactly those records one by one.
C16_ChunkRecords == C16_RecordsWritten /\ C16_RecordsConsumed

\* The kind of each byte of record r: "n" for nonce, "c" for ciphertext, "t"
\* for tag.
RecordKinds(r) == [i \in 1..Len(Record(r)) |-> Record(r)[i][1]]
\* n bytes of one kind.
Run(kind, n) == [i \in 1..n |-> kind]
Written == sPc \in {"stored", "decrypting", "returned"} /\ tampered = 0

\* C17: chunk record layout.  Every record encrypt_file writes is
\* nonce || ciphertext || tag under both algorithms, the nonce 12 bytes for
\* AES-256-GCM and 24 for XCHACHA20-POLY1305, the tag 16 bytes: the record of
\* an n-byte plaintext chunk is n + nonce length + 16 bytes long.
C17_RecordLayout ==
    Written =>
        \A r \in DOMAIN recEnds :
            /\ nonceLog[r].len = NonceSize(algorithm)
            /\ NonceSize(algorithm) = (IF algorithm = AES THEN 12 ELSE 24)
            /\ Record(r) = NonceBytes(nonceLog[r])
                           \o CtBytes(encKey, nonceLog[r], PlainChunk(r))
                           \o TagBytes(encKey, nonceLog[r], PlainChunk(r))
            /\ Len(Record(r)) = Len(PlainChunk(r)) + NonceSize(algorithm) + 16

\* The layout the records do have: ciphertext || tag under AES-256-GCM (the
\* nonce is not in the record), nonce || tag || ciphertext under
\* XCHACHA20-POLY1305; the nonce given to encrypt_chunk has the algorithm's
\* length and the tag is 16 bytes.
C17_ActualLayout ==
    Written =>
        \A r \in DOMAIN recEnds :
            LET n == Len(PlainChunk(r))
            IN  /\ nonceLog[r].len = NonceSize(algorithm)
                /\ NonceSize(algorithm) = (IF algorithm = AES THEN 12 ELSE 24)
                /\ algorithm = AES =>
                       RecordKinds(r) = Run("c", n) \o Run("t", 16)
                /\ algorithm = XCHACHA =>
                       RecordKinds(r) = Run("n", 24) \o Run("t", 16) \o Run("c", n)

\* The length of C17 alone.
C17_RecordLength ==
    Written =>
        \A r \in DOMAIN recEnds :
            Len(Record(r)) = Len(PlainChunk(r)) + NonceSize(algorithm) + 16

\* The order of C17 alone, under XCHACHA20-POLY1305, where the length is
\* as stated.
C17_XChaChaOrder ==
    (Written /\ algorithm = XCHACHA) =>
        \A r \in DOMAIN recEnds :
            RecordKinds(r) = Run("n", 24) \o Run("c", Len(PlainChunk(r))) \o Run("t", 16)

\* The file is not a valid container: it is no serialized header, or the
\* header in it is one that must be refused.
NotAContainer(file) ==
    \/ TooShort(file) \/ WrongMagic(file) \/ LengthExceeds(file)
    \/ JsonUnparseable(file) \/ JsonIncomplete(file)
    \/ RefusedField(from_dict(json_loads(JsonText(file).chars).val))

C18_WitnessOther ==
    /\ sPc = "inspected"
    /\ infoFile # StoredFile
    /\ ~TooShort(infoFile) /\ ~WrongMagic(infoFile) /\ ~LengthExceeds(infoFile)
    /\ ~JsonUnparseable(infoFile) /\ ~JsonIncomplete(infoFile)
    /\ info.none

(***************************************************************************)
(* Properties of the encryptors, under AeadSpec.                            *)
(***************************************************************************)
Constructed == aPc \in {"constructed", "encrypted", "decrypted"}
Called == aPc \in {"encrypted", "decrypted"}

\* C19: eager parameter validation.  create_encryptor fails for a key that
\* is not exactly 32 bytes, under either algorithm, and for an unsupported
\* algorithm name; encrypt_chunk and decrypt_chunk fail, with no output, for
\* a nonce that is not exactly 12 bytes (AES-256-GCM) or 24 bytes
\* (XCHACHA20-POLY1305): a nonce one byte longer or shorter than that is not
\* cut or filled up and used.
C19_EagerValidation ==
    /\ Constructed => (aKey.len = 32 /\ aAlgorithm \in {AES, XCHACHA})
    /\ (aPc = "refused") => (aKey.len # 32 \/ aAlgorithm \notin {AES, XCHACHA})
    /\ (Called /\ aAlgorithm = AES /\ aNonce.len # 12) => (~aOut.ok /\ aOut.data = <<>>)
    /\ (Called /\ aAlgorithm = XCHACHA /\ aNonce.len # 24) => (~aOut.ok /\ aOut.data = <<>>)
    /\ (aPc = "encrypted" /\ aNonce.len = NonceSize(aAlgorithm)) => aOut.ok

\* C19, its case: encrypt_chunk of the AES-256-GCM encryptor called with a
\* 13-byte nonce has failed.
C19_Witness ==
    /\ aPc = "encrypted"
    /\ aAlgorithm = AES
    /\ aKey.len = 32
    /\ aNonce.len = NonceLenAES + 1
    /\ aData # <<>>
    /\ ~aOut.ok

\* A key of 31 bytes was refused, and a record was decrypted with the nonce
\* it was made with.
C19_WitnessKey == aPc = "refused" /\ aAlgorithm = XCHACHA /\ aKey.len = 31
C19_WitnessDecrypted == aPc = "decrypted" /\ aOut.ok /\ aOut.data = PlainOf(3)

(***************************************************************************)
(* Properties of the job table's passwords, under TaskSpec.                 *)
(***************************************************************************)
\* The job's record no longer holds a password.
PasswordCleared(t) == tasks[t].password = ""

\* C20: password lifetime.  A job's password is in the job table only while
\* the job is pending or processing: in every reachable state in which a
\* job is completed or failed, the pipeline no longer holds its password.
C20_PasswordLifetime ==
    \A t \in TaskIds : tasks[t].status \in {COMPLETED, FAILED} => PasswordCleared(t)

\* What the code does: no step removes a job from the table or changes the
\* password in its record.
C20_PasswordKept ==
    [][\A t \in TaskIds : t \in DOMAIN tasks' /\ tasks'[t].password = tasks[t].password]_vars

(***************************************************************************)
(* C21: the container is self-describing.                                  *)
(***************************************************************************)
\* The Argon2 parameters recorded in the header decrypt_file has parsed.
HeaderKdf(header) ==
    [m |-> Lookup(header.kdf_params, Chars("m")).v,
     t |-> Lookup(header.kdf_params, Chars("t")).v,
     p |-> Lookup(header.kdf_params, Chars("p")).v]
\* The stored container was written under another configuration than the
\* one the process has now.
ConfigChanged ==
    /\ sPc \notin {"new", "encrypting"}
    /\ HeaderKdf(outHeader) #
          [m |-> settings.argon2_memory_mb * 1024, t |-> settings.argon2_time_cost,
           p |-> settings.argon2_parallelism]
\* decrypt_file reads every record of the stored container in one read.
ReadWhole == \A r \in 1..Len(recEnds) : Len(StoredRecord(r)) <= ChunkSize

\* C21: decrypt_file derives the key under the memory, time and parallelism
\* values recorded in the header, so a container written under one Argon2
\* configuration decrypts with the right password, to the original bytes,
\* also after the configured parameters have changed.
C21_SelfDescribing ==
    /\ (sPc \in {"decrypting", "returned"} /\ dKey # NoKey)
          => [m |-> dKey.m, t |-> dKey.t, p |-> dKey.p] = HeaderKdf(dHeader)
    /\ (sPc = "returned" /\ dPassword = password /\ ReadWhole)
          => (dResult = "True" /\ outBytes = plain)

\* What the code does: the key is derived under the configuration of the
\* process that decrypts.
C21_KeyFromSettings ==
    (sPc \in {"decrypting", "returned"} /\ dKey # NoKey)
        => [m |-> dKey.m, t |-> dKey.t, p |-> dKey.p] =
             [m |-> settings.argon2_memory_mb * 1024, t |-> settings.argon2_time_cost,
              p |-> settings.argon2_parallelism]
\* A container read under the configuration it was written under decrypts.
C21_SameConfigDecrypts ==
    (sPc = "returned" /\ dPassword = password /\ ReadWhole /\ ~ConfigChanged)
        => (dResult = "True" /\ outBytes = plain)
\* A container read under another configuration is refused, right password
\* or not.
C21_ChangedConfigRefused ==
    (sPc = "returned" /\ ConfigChanged /\ Len(payload) > 0) => dResult = "False"

(***************************************************************************)
(* C22: reordered and truncated containers.                                *)
(***************************************************************************)
\* The original size recorded in the header encrypt_file wrote.
OriginalSize == outHeader.original_size.v

\* C22: decrypt_file with the right password returns False when records of
\* the container changed places or when trailing records, up to all of
\* them, were removed; when it returns True the output has as many bytes as
\* the header's original size says.
C22_DamageDetected ==
    (sPc = "returned" /\ dPassword = password)
        => /\ damage # "none" => dResult = "False"
           /\ dResult = "True" => Len(outBytes) = OriginalSize

\* The part that holds: a container whose records changed places is refused.
C22_ReorderRefused ==
    (sPc = "returned" /\ damage = "reordered") => dResult = "False"
\* What the code does with a container cut at a record boundary: it returns
\* True exactly when no record is left.
C22_TruncatedToNothing ==
    (sPc = "returned" /\ damage = "truncated" /\ dPassword = password)
        => (dResult = "True" <=> payload = <<>>)
\* An empty output is then reported as a success for a non-empty original.
C22_EmptyOutputAccepted ==
    (sPc = "returned" /\ damage = "truncated" /\ dResult = "True")
        => (outBytes = <<>> /\ OriginalSize > 0)

(***************************************************************************)
(* C23: the lengths of the salt and of the nonce.                          *)
(***************************************************************************)
\* How many bytes a header field decodes to.
DecodedLen(text) == Len(b64decode(text).data)

\* C23: validate_header accepts a header only if its salt decodes to
\* exactly 32 bytes and its nonce to the nonce length of the header's
\* algorithm, 12 bytes for AES-256-GCM and 24 for XCHACHA20-POLY1305.
C23_SaltAndNonceLengths ==
    (cPc = "validated" /\ cValid)
        => /\ DecodedLen(cHeader.salt.v) = SaltLen
           /\ DecodedLen(cHeader.nonce.v) = NonceSize(StrOf(cHeader.algorithm.v))

\* The two parts, each refuted on its own.
C23_SaltLength ==
    (cPc = "validated" /\ cValid) => DecodedLen(cHeader.salt.v) = SaltLen
C23_NonceLength ==
    (cPc = "validated" /\ cValid)
        => DecodedLen(cHeader.nonce.v) = NonceSize(StrOf(cHeader.algorithm.v))
\* What the code checks: that both fields decode.
C23_DecodableOnly ==
    (cPc = "validated" /\ cValid)
        => (b64decode(cHeader.salt.v).ok /\ b64decode(cHeader.nonce.v).ok)
\* The headers create_header builds have the lengths, and are accepted.
C23_CreatedAccepted ==
    (cPc = "validated" /\ cHeader \in CreatedHeaders)
        => /\ cValid
           /\ DecodedLen(cHeader.salt.v) = SaltLen
           /\ DecodedLen(cHeader.nonce.v) = NonceSize(StrOf(cHeader.algorithm.v))

(***************************************************************************)
(* C24, C25: download tokens, under TokenSpec.                             *)
(***************************************************************************)
\* The calls of download_file whose token validate_token accepted.
Accepted(k) == tLog[k] # 400
\* The token's path or name holds the byte that joins data and signature.
HasSeparator == \E i \in DOMAIN tPath : tPath[i] = "|"
NameHasSeparator == \E i \in DOMAIN tName : tName[i] = "|"
Expiry == tIssued + TokenTtl

\* C24: download links are one-time.  Once validate_token has accepted a
\* token, every later validate_token of the same token is rejected, also
\* before the token expires.
C24_OneTimeLinks ==
    \A i \in DOMAIN tLog, j \in DOMAIN tLog : (i < j /\ Accepted(i)) => ~Accepted(j)

\* What the code does: an unchanged token without the separator in its data
\* is accepted at every call up to its expiry.
C24_AcceptedAgain ==
    (tChanged = 0 /\ now <= Expiry /\ ~HasSeparator /\ ~NameHasSeparator)
        => \A k \in DOMAIN tLog : Accepted(k)

\* C25: the token round trip.  For every path and file name, "|" and "."
\* included, validate_token of the token create_download_token returned
\* gives data with the same path and name while the time is at most the
\* expiry (issue time plus TTL); it gives None once the token has expired or
\* when a byte of the token's data or signature was changed.
C25_TokenRoundTrip ==
    [][tLog' # tLog =>
         IF tChanged = 0 /\ now <= Expiry
         THEN /\ ~tResult'.none
              /\ Lookup(tResult'.data, FilePathKey) = JStr(tPath)
              /\ Lookup(tResult'.data, FilenameKey) = JStr(tName)
         ELSE tResult'.none]_vars

\* The round trip for paths and names without "|".
C25_RoundTripWithoutBar ==
    [][(tLog' # tLog /\ ~HasSeparator /\ ~NameHasSeparator) =>
         IF tChanged = 0 /\ now <= Expiry
         THEN /\ ~tResult'.none
              /\ Lookup(tResult'.data, FilePathKey) = JStr(tPath)
              /\ Lookup(tResult'.data, FilenameKey) = JStr(tName)
         ELSE tResult'.none]_vars
\* A token whose path or name holds "|" is refused at any time.
C25_BarRefused ==
    [][(tLog' # tLog /\ (HasSeparator \/ NameHasSeparator)) => tResult'.none]_vars
\* Expired tokens and changed tokens are refused, whatever the name.
C25_ExpiredOrChangedRefused ==
    [][(tLog' # tLog /\ (tChanged # 0 \/ now > Expiry)) => tResult'.none]_vars

(***************************************************************************)
(* C26: validation before decryption, under UploadSpec.                    *)
(***************************************************************************)
\* C26: in decrypt_file the header is parsed and validated before a key is
\* derived, a cipher constructed or the output file created: for an input
\* whose header is malformed or fails validation, decrypt_file returns False
\* and has derived no key, decrypted no chunk and created no output file.
C26_ValidationFirst ==
    (sPc \in {"decrypting", "returned"} /\ NotAContainer(StoredFile))
        => /\ sPc = "returned"
           /\ dResult = "False"
           /\ dKey = NoKey
           /\ dReads = 0
           /\ outBytes = <<>>
           /\ ~outExists

\* C26, its cases: decrypt_file has returned for a file whose header cannot
\* be parsed, and for a file whose header parses and fails validation.
C26_Witness ==
    /\ sPc = "returned"
    /\ damage = "replaced"
    /\ NotAContainer(StoredFile)
    /\ ReadHeader.ok
    /\ dResult = "False"
C26_WitnessMalformed ==
    /\ sPc = "returned"
    /\ damage = "replaced"
    /\ ~ReadHeader.ok
    /\ dResult = "False"
\* A container encrypt_file wrote passes validation: the key is derived and
\* the output file created.
C26_WitnessValid ==
    /\ sPc = "decrypting"
    /\ damage = "none"
    /\ dKey # NoKey
    /\ outExists

(***************************************************************************)
(* C27: status snapshots, under StatusSpec.                                *)
(***************************************************************************)
\* The files of the snapshot that were processed: their header and their
\* download token are recorded.
SnapshotProcessed ==
    {i \in DOMAIN snapshot.files :
        snapshot.files[i].header /\ snapshot.files[i].download_token}

\* C27: what get_task_status returns is consistent under every interleaving
\* of requests and worker steps: no snapshot shows completed with fewer than
\* all files processed, none shows pending with a non-zero progress or a
\* completion timestamp, none shows processing with a completion timestamp.
C27_ConsistentSnapshots ==
    (snapshot.called /\ ~snapshot.none)
        => /\ snapshot.status = COMPLETED
                => /\ SnapshotProcessed = DOMAIN snapshot.files
                   /\ RatEq(snapshot.progress, [n |-> 100, d |-> 1])
           /\ snapshot.status = PENDING
                => /\ RatEq(snapshot.progress, Zero)
                   /\ snapshot.completed_at = "None"
           /\ snapshot.status = PROCESSING => snapshot.completed_at = "None"

\* C27, its cases: a snapshot taken while the worker is inside the job, some
\* of its files processed; a snapshot of a completed job; a snapshot of a
\* job that waits while another is processed.
C27_Witness ==
    /\ snapshot.called
    /\ snapshot.status = PROCESSING
    /\ SnapshotProcessed # {}
    /\ SnapshotProcessed # DOMAIN snapshot.files
    /\ wTask = snapshot.task_id
C27_WitnessCompleted ==
    /\ snapshot.called
    /\ snapshot.status = COMPLETED
    /\ Len(snapshot.files) = MaxFiles
C27_WitnessPending ==
    /\ snapshot.called
    /\ snapshot.status = PENDING
    /\ wTask # 0

(***************************************************************************)
(* C28: every job is finished, under TaskFairSpec.                         *)
(***************************************************************************)
\* C28: with a concurrency limit of at least one and every file encryption
\* terminating, every job submitted with create_task eventually is completed
\* or failed and the worker is through with it, whatever is queued ahead of
\* it and whether or not earlier jobs failed.
C28_EveryJobFinishes ==
    \A t \in 1..MaxTasks : (t \in TaskIds) ~> Processed(t)

\* C28, its case: the last of MaxTasks jobs is finished, after a job ahead
\* of it has failed.
C28_Witness ==
    /\ MaxConcurrency >= 1
    /\ Len(tasks) = MaxTasks
    /\ Processed(MaxTasks)
    /\ \E t \in 1..(MaxTasks - 1) : tasks[t].status = FAILED

(***************************************************************************)
(* C29: the timestamp and the error of a job, under TaskSpec.              *)
(***************************************************************************)
Finished(t) == tasks[t].status \in {COMPLETED, FAILED}

\* C29: in every reachable state a job has a completion timestamp exactly
\* when its status is completed or failed, and an error message exactly
\* when its status is failed.
C29_TimestampAndError ==
    \A t \in TaskIds :
        /\ tasks[t].completed_at # "None" <=> Finished(t)
        /\ tasks[t].error_message # "None" <=> tasks[t].status = FAILED

\* The two parts, each refuted on its own.
C29_TimestampIffFinished ==
    \A t \in TaskIds : tasks[t].completed_at # "None" <=> Finished(t)
C29_ErrorIffFailed ==
    \A t \in TaskIds : tasks[t].error_message # "None" <=> tasks[t].status = FAILED
\* What holds: a timestamp only on a finished job, no error on a pending
\* job, and both on every job the worker itself has failed.
C29_WorkerWrites ==
    \A t \in TaskIds :
        /\ tasks[t].completed_at # "None" => Finished(t)
        /\ tasks[t].status = PENDING => tasks[t].error_message = "None"
        /\ tasks[t].status = COMPLETED => tasks[t].completed_at # "None"
        /\ (tasks[t].status = FAILED /\ raisedOf[t].file # 0 /\ wTask # t)
              => (tasks[t].completed_at # "None" /\ tasks[t].error_message # "None")

(***************************************************************************)
(* C30: the output paths of outstanding work, under TaskSpec.              *)
(***************************************************************************)
\* The work items that are outstanding: the files of the jobs the worker
\* has not finished.
Outstanding ==
    {<<t, i>> : t \in TaskIds, i \in 1..MaxFiles} \cap
    {w \in (1..MaxTasks) \X (1..MaxFiles) :
        /\ w[1] \in TaskIds
        /\ w[2] \in DOMAIN tasks[w[1]].files
        /\ ~Processed(w[1])}
EncryptedPath(w) == tasks[w[1]].files[w[2]].encrypted_path
UploadName(w) == tasks[w[1]].files[w[2]].original_name

\* C30: the encrypted_path values create_temp_file returns are unique among
\* the outstanding work items: two items never have the same encrypted_path,
\* two uploads of the same name included, also when the path of the second
\* is asked for before the worker has written the output file of the first.
C30_UniqueOutputPaths ==
    \A v \in Outstanding, w \in Outstanding :
        v # w => EncryptedPath(v) # EncryptedPath(w)

\* What create_temp_file guarantees: the path it returns does not exist at
\* the call; among the files of one request, whose names differ, the paths
\* differ.
C30_UniqueWithinJob ==
    \A v \in Outstanding, w \in Outstanding :
        (v # w /\ v[1] = w[1]) => EncryptedPath(v) # EncryptedPath(w)
\* Items with the same path are uploads of the same name, and the path was
\* handed out again while no file was at it.
C30_SameNameCollides ==
    \A v \in Outstanding, w \in Outstanding :
        (v # w /\ EncryptedPath(v) = EncryptedPath(w)) => UploadName(v) = UploadName(w)
====
